---------------------------- MODULE Spec2Model ----------------------------
(***************************************************************************)
(* A model of the type-level parser of re-do/re-posts, "Taking TypeScript  *)
(* too far": the generics of ExpressingYourself.ts, TakingShape.ts and     *)
(* FinalIngredient.ts (and of the playground copy of the final code),      *)
(* which validate a definition written with strings and objects and infer  *)
(* the type it stands for.                                                 *)
(*                                                                         *)
(* A string is a sequence of tokens.  A token is one of the punctuation    *)
(* marks "?", "|" and "[]" that the template literal patterns of the       *)
(* source match, or a word: a maximal run of other characters.  Two words  *)
(* are never adjacent, so that a string has one token sequence; the        *)
(* characters "[" and "]" occur only as the pair "[]".                      *)
(*                                                                         *)
(* A type is a record with a field kind; a value is a record with a field  *)
(* is.  Accepts(type, value) is TypeScript's assignability of a literal    *)
(* value to the type.                                                      *)
(***************************************************************************)
EXTENDS Integers, Sequences, FiniteSets, TLC

VARIABLES
    expression,   \* the string handed to parseExpression
    space,        \* the Space of the call (the empty Space when none is given)
    pc,           \* where the call is
    validated,    \* the result of ValidateExpression: the parameter type
    inferred,     \* the result of TypeOfExpression: the return type
    call          \* the instantiation the compiler is at, when it is followed

vars == <<expression, space, pc, validated, inferred, call>>

----------------------------------------------------------------------------
(* Bounds of the model.                                                    *)

\* The longest expression, in tokens.
MaxLen == 5

\* The longest array among the candidate values.
MaxArr == 2

\* The deepest nesting of objects and tuples in a generated definition.
MaxDepth == 2

----------------------------------------------------------------------------
(* Strings.                                                                *)

Punctuation == {"?", "|", "[]"}

\* The words expressions are written with: keywords, a misspelt keyword and
\* the name of a Space member.
Words == {"string", "number", "boolean", "null", "any", "numbr", "category"}

Tokens == Words \cup Punctuation

EmptyString == << >>

\* Expression extends `${infer Optional}?`
EndsWithOptional(s) == Len(s) >= 1 /\ s[Len(s)] = "?"

\* Expression extends `${infer Item}[]`
EndsWithList(s) == Len(s) >= 1 /\ s[Len(s)] = "[]"

\* The inferred prefix of a one-placeholder pattern: all but the suffix.
Inner(s) == SubSeq(s, 1, Len(s) - 1)

\* Expression extends `${infer Right}|${infer Left}`
ContainsUnion(s) == \E i \in 1..Len(s) : s[i] = "|"

\* The template matches its delimiter at the first place it occurs.
FirstUnion(s) == CHOOSE i \in 1..Len(s) : s[i] = "|" /\ \A j \in 1..(i - 1) : s[j] # "|"

\* `${infer Right}`: the source names the part before the "|" Right.
Right(s) == SubSeq(s, 1, FirstUnion(s) - 1)

\* `${infer Left}`: the part after the first "|".
Left(s) == SubSeq(s, FirstUnion(s) + 1, Len(s))

----------------------------------------------------------------------------
(* StartingSmall: keywords.                                                *)

\* StartingSmall.KeywordsToTypes, a map from a keyword to its type.
KeywordsToTypes ==
    [k \in {"string", "number", "boolean", "null", "any"} |-> [kind |-> k]]

\* keyof StartingSmall.KeywordsToTypes, as strings.
Keywords == {<<k>> : k \in DOMAIN KeywordsToTypes}

\* A variant that gives every keyword the type of "string".
TypeOfKeyword_AlwaysString(Keyword) == KeywordsToTypes["string"]

\* StartingSmall.TypeOfKeyword<Keyword>
TypeOfKeyword(Keyword) == KeywordsToTypes[Keyword[1]]

\* The KeywordsToTypes at the top level of StartingSmall.ts.
TopLevel_KeywordsToTypes ==
    [k \in {"string", "number", "boolean", "any"} |-> [kind |-> k]]

\* The KeywordsToTypes of src/examples.ts.
Examples_KeywordsToTypes ==
    [k \in {"string", "number", "boolean", "any"} |-> [kind |-> k]]

\* A type argument that does not satisfy its constraint: the compiler
\* reports an error and there is no type.
ConstraintError(Keyword) ==
    <<"Type ">> \o Keyword \o <<" does not satisfy the constraint.">>

NoType == [kind |-> "error"]

\* TypeOfKeyword<Keyword extends keyof KeywordsToTypes> of src/examples.ts
Examples_TypeOfKeyword(Keyword) ==
    IF Keyword[1] \in DOMAIN Examples_KeywordsToTypes
    THEN Examples_KeywordsToTypes[Keyword[1]]
    ELSE NoType

----------------------------------------------------------------------------
(* Types.                                                                  *)

Undefined == [kind |-> "undefined"]

Unknown == [kind |-> "unknown"]

\* A | B
Union(a, b) == [kind |-> "union", left |-> a, right |-> b]

\* Item[]
ArrayOf(item) == [kind |-> "array", item |-> item]

\* { [Index in keyof Def]: ... } of a tuple
TupleOf(items) == [kind |-> "tuple", items |-> items]

\* { [Key in RequiredKeys]: ... } & { [Key in OptionalKeys]?: ... }
ObjectOf(required, optional) ==
    [kind |-> "object", required |-> required, optional |-> optional]

\* TypeOf<Space[Expression], Space>, not yet expanded.
Reference(name, Space) == [kind |-> "reference", name |-> name, space |-> Space]

----------------------------------------------------------------------------
(* Definitions: a string, an object or tuple of definitions, or a leaf of  *)
(* another kind (a number, a boolean).  A Space is a map from names to     *)
(* definitions.  The keys of objects and the names of a Space are strings. *)

StringDef(text) == [shape |-> "string", text |-> text]

ObjectDef(props) == [shape |-> "object", props |-> props]

TupleDef(items) == [shape |-> "tuple", items |-> items]

NumberDef == [shape |-> "number"]

----------------------------------------------------------------------------
(* Values, and the assignment of a value to a type (strict null checks).   *)

PrimitiveValues ==
    {[is |-> p] : p \in {"string", "number", "boolean", "null", "undefined"}}

ElementValues == {[is |-> p] : p \in {"string", "number", "undefined"}}

ArrayValue(items) == [is |-> "array", items |-> items]

\* The arrays of at most MaxArr elements drawn from S.
ArraysOver(S) ==
    {ArrayValue(items) : items \in UNION {[1..n -> S] : n \in 0..MaxArr}}

\* The candidate values: primitives, arrays of them, and arrays of one array.
Values ==
    PrimitiveValues \cup ArraysOver(ElementValues)
        \cup {ArrayValue(<<a>>) : a \in ArraysOver(ElementValues)}

ObjectValue(props) == [is |-> "object", props |-> props]

\* TakingShape.OptionalDefKeys and FinalIngredient.TypeOf are defined below.
\* The type of a Space member is expanded when a value is checked against
\* it: forcing a reference applies TypeOf to the member's definition.
RECURSIVE FinalIngredient_TypeOf(_, _)

\* The assignment of a literal value to a type.  seen holds the references
\* forced since the last descent into the value: forcing one of them again
\* is a type that circularly references itself, for which the compiler
\* produces no type, and Circular has no value.
Circular == CHOOSE outcome \in {} : TRUE

RECURSIVE AcceptsFrom(_, _, _)
AcceptsFrom(type, v, seen) ==
    CASE type.kind \in {"any", "unknown"} -> TRUE
      [] type.kind = "union" ->
            AcceptsFrom(type.left, v, seen) \/ AcceptsFrom(type.right, v, seen)
      [] type.kind = "array" ->
            /\ v.is = "array"
            /\ \A i \in 1..Len(v.items) : AcceptsFrom(type.item, v.items[i], {})
      [] type.kind = "tuple" ->
            /\ v.is = "array"
            /\ Len(v.items) = Len(type.items)
            /\ \A i \in 1..Len(v.items) :
                   AcceptsFrom(type.items[i], v.items[i], {})
      [] type.kind = "object" ->
            /\ v.is = "object"
            /\ DOMAIN type.required \subseteq DOMAIN v.props
            /\ DOMAIN v.props \subseteq
                   DOMAIN type.required \cup DOMAIN type.optional
            /\ \A k \in DOMAIN type.required :
                   AcceptsFrom(type.required[k], v.props[k], {})
            /\ \A k \in DOMAIN type.optional \cap DOMAIN v.props :
                   \/ v.props[k].is = "undefined"
                   \/ AcceptsFrom(type.optional[k], v.props[k], {})
      [] type.kind = "reference" ->
            IF type.name \in seen
            THEN Circular
            ELSE AcceptsFrom(FinalIngredient_TypeOf(type.space[type.name], type.space),
                             v, seen \cup {type.name})
      [] OTHER -> v.is = type.kind

Accepts(type, v) == AcceptsFrom(type, v, {})

----------------------------------------------------------------------------
(* StartingSmall, at the top level: objects of keywords.                   *)

\* TypeOfObject<Obj>: a value that is a keyword has the type of the
\* keyword, an object is mapped in turn, anything else is unknown.
RECURSIVE StartingSmall_TypeOfObject(_)
StartingSmall_TypeOfObject(Obj) ==
    LET OfValue(Def) ==
            IF Def.shape = "string" /\ Len(Def.text) = 1
                  /\ Def.text[1] \in DOMAIN TopLevel_KeywordsToTypes
            THEN TopLevel_KeywordsToTypes[Def.text[1]]
            ELSE IF Def.shape \in {"object", "tuple"}
            THEN StartingSmall_TypeOfObject(Def)
            ELSE Unknown
    IN  IF Obj.shape = "tuple"
        THEN TupleOf([Key \in DOMAIN Obj.items |-> OfValue(Obj.items[Key])])
        ELSE ObjectOf([Key \in DOMAIN Obj.props |-> OfValue(Obj.props[Key])],
                      << >>)

----------------------------------------------------------------------------
(* ExpressingYourself.                                                     *)

\* `Error: ${Fragment} is not a valid expression.`
ErrorMessage(Fragment) ==
    <<"Error: ">> \o Fragment \o <<" is not a valid expression.">>

\* A variant that tests the trailing "[]" before the "|".
RECURSIVE TypeOfExpression_ListBeforeUnion(_)
TypeOfExpression_ListBeforeUnion(Expression) ==
    IF EndsWithOptional(Expression)
    THEN Union(TypeOfExpression_ListBeforeUnion(Inner(Expression)), Undefined)
    ELSE IF EndsWithList(Expression)
    THEN ArrayOf(TypeOfExpression_ListBeforeUnion(Inner(Expression)))
    ELSE IF ContainsUnion(Expression)
    THEN Union(TypeOfExpression_ListBeforeUnion(Right(Expression)),
               TypeOfExpression_ListBeforeUnion(Left(Expression)))
    ELSE IF Expression \in Keywords
    THEN TypeOfKeyword(Expression)
    ELSE Unknown

\* A variant whose list is the type of its item.
RECURSIVE TypeOfExpression_ListAsItem(_)
TypeOfExpression_ListAsItem(Expression) ==
    IF EndsWithOptional(Expression)
    THEN Union(TypeOfExpression_ListAsItem(Inner(Expression)), Undefined)
    ELSE IF ContainsUnion(Expression)
    THEN Union(TypeOfExpression_ListAsItem(Right(Expression)),
               TypeOfExpression_ListAsItem(Left(Expression)))
    ELSE IF EndsWithList(Expression)
    THEN TypeOfExpression_ListAsItem(Inner(Expression))
    ELSE IF Expression \in Keywords
    THEN TypeOfKeyword(Expression)
    ELSE Unknown

\* A variant whose optional does not add undefined.
RECURSIVE TypeOfExpression_OptionalAsInner(_)
TypeOfExpression_OptionalAsInner(Expression) ==
    IF EndsWithOptional(Expression)
    THEN TypeOfExpression_OptionalAsInner(Inner(Expression))
    ELSE IF ContainsUnion(Expression)
    THEN Union(TypeOfExpression_OptionalAsInner(Right(Expression)),
               TypeOfExpression_OptionalAsInner(Left(Expression)))
    ELSE IF EndsWithList(Expression)
    THEN ArrayOf(TypeOfExpression_OptionalAsInner(Inner(Expression)))
    ELSE IF Expression \in Keywords
    THEN TypeOfKeyword(Expression)
    ELSE Unknown

RECURSIVE ExpressingYourself_TypeOfExpression(_)
ExpressingYourself_TypeOfExpression(Expression) ==
    IF EndsWithOptional(Expression)
    THEN Union(ExpressingYourself_TypeOfExpression(Inner(Expression)), Undefined)
    ELSE IF ContainsUnion(Expression)
    THEN Union(ExpressingYourself_TypeOfExpression(Right(Expression)),
               ExpressingYourself_TypeOfExpression(Left(Expression)))
    ELSE IF EndsWithList(Expression)
    THEN ArrayOf(ExpressingYourself_TypeOfExpression(Inner(Expression)))
    ELSE IF Expression \in Keywords
    THEN TypeOfKeyword(Expression)
    ELSE Unknown

\* A variant whose error names the whole expression.
RECURSIVE ValidateFragment_ReportsRoot(_, _)
ValidateFragment_ReportsRoot(Fragment, Root) ==
    IF EndsWithOptional(Fragment)
    THEN ValidateFragment_ReportsRoot(Inner(Fragment), Root)
    ELSE IF ContainsUnion(Fragment)
    THEN IF ValidateFragment_ReportsRoot(Right(Fragment), Root) = Root
         THEN ValidateFragment_ReportsRoot(Left(Fragment), Root)
         ELSE ValidateFragment_ReportsRoot(Right(Fragment), Root)
    ELSE IF EndsWithList(Fragment)
    THEN ValidateFragment_ReportsRoot(Inner(Fragment), Root)
    ELSE IF Fragment \in Keywords
    THEN Root
    ELSE ErrorMessage(Root)

\* A variant that takes a "?" only at the end of the whole expression.
RECURSIVE ValidateFragment_OptionalOnlyAtEnd(_, _)
ValidateFragment_OptionalOnlyAtEnd(Fragment, Root) ==
    IF EndsWithOptional(Fragment) /\ Fragment = Root
    THEN ValidateFragment_OptionalOnlyAtEnd(Inner(Fragment), Root)
    ELSE IF ContainsUnion(Fragment)
    THEN IF ValidateFragment_OptionalOnlyAtEnd(Right(Fragment), Root) = Root
         THEN ValidateFragment_OptionalOnlyAtEnd(Left(Fragment), Root)
         ELSE ValidateFragment_OptionalOnlyAtEnd(Right(Fragment), Root)
    ELSE IF EndsWithList(Fragment)
    THEN ValidateFragment_OptionalOnlyAtEnd(Inner(Fragment), Root)
    ELSE IF Fragment \in Keywords
    THEN Root
    ELSE ErrorMessage(Fragment)

\* A variant that validates the part after the "|" first.
RECURSIVE ValidateFragment_SecondHalfFirst(_, _)
ValidateFragment_SecondHalfFirst(Fragment, Root) ==
    IF EndsWithOptional(Fragment)
    THEN ValidateFragment_SecondHalfFirst(Inner(Fragment), Root)
    ELSE IF ContainsUnion(Fragment)
    THEN IF ValidateFragment_SecondHalfFirst(Left(Fragment), Root) = Root
         THEN ValidateFragment_SecondHalfFirst(Right(Fragment), Root)
         ELSE ValidateFragment_SecondHalfFirst(Left(Fragment), Root)
    ELSE IF EndsWithList(Fragment)
    THEN ValidateFragment_SecondHalfFirst(Inner(Fragment), Root)
    ELSE IF Fragment \in Keywords
    THEN Root
    ELSE ErrorMessage(Fragment)

\* A variant for which a union is valid when either part is.
RECURSIVE ValidateFragment_EitherHalf(_, _)
ValidateFragment_EitherHalf(Fragment, Root) ==
    IF EndsWithOptional(Fragment)
    THEN ValidateFragment_EitherHalf(Inner(Fragment), Root)
    ELSE IF ContainsUnion(Fragment)
    THEN IF ValidateFragment_EitherHalf(Right(Fragment), Root) = Root
         THEN Root
         ELSE ValidateFragment_EitherHalf(Left(Fragment), Root)
    ELSE IF EndsWithList(Fragment)
    THEN ValidateFragment_EitherHalf(Inner(Fragment), Root)
    ELSE IF Fragment \in Keywords
    THEN Root
    ELSE ErrorMessage(Fragment)

\* A variant for which the empty fragment is valid.
RECURSIVE ValidateFragment_EmptyIsValid(_, _)
ValidateFragment_EmptyIsValid(Fragment, Root) ==
    IF EndsWithOptional(Fragment)
    THEN ValidateFragment_EmptyIsValid(Inner(Fragment), Root)
    ELSE IF ContainsUnion(Fragment)
    THEN IF ValidateFragment_EmptyIsValid(Right(Fragment), Root) = Root
         THEN ValidateFragment_EmptyIsValid(Left(Fragment), Root)
         ELSE ValidateFragment_EmptyIsValid(Right(Fragment), Root)
    ELSE IF EndsWithList(Fragment)
    THEN ValidateFragment_EmptyIsValid(Inner(Fragment), Root)
    ELSE IF Fragment \in Keywords \/ Fragment = EmptyString
    THEN Root
    ELSE ErrorMessage(Fragment)

RECURSIVE ExpressingYourself_ValidateFragment(_, _)
ExpressingYourself_ValidateFragment(Fragment, Root) ==
    IF EndsWithOptional(Fragment)
    THEN ExpressingYourself_ValidateFragment(Inner(Fragment), Root)
    ELSE IF ContainsUnion(Fragment)
    THEN IF ExpressingYourself_ValidateFragment(Right(Fragment), Root) = Root
         THEN ExpressingYourself_ValidateFragment(Left(Fragment), Root)
         ELSE ExpressingYourself_ValidateFragment(Right(Fragment), Root)
    ELSE IF EndsWithList(Fragment)
    THEN ExpressingYourself_ValidateFragment(Inner(Fragment), Root)
    ELSE IF Fragment \in Keywords
    THEN Root
    ELSE ErrorMessage(Fragment)

ExpressingYourself_ValidateExpression(Expression) ==
    ExpressingYourself_ValidateFragment(Expression, Expression)

\* `Error: '${Fragment}' is not a valid expression.`, as the article has it.
Documented_ErrorMessage(Fragment) ==
    <<"Error: '">> \o Fragment \o <<"' is not a valid expression.">>

\* ValidateFragment as the article prints it; it names the part before the
\* "|" Left and the part after it Right.
RECURSIVE Documented_ValidateFragment(_, _)
Documented_ValidateFragment(Fragment, Root) ==
    IF EndsWithOptional(Fragment)
    THEN Documented_ValidateFragment(Inner(Fragment), Root)
    ELSE IF ContainsUnion(Fragment)
    THEN IF Documented_ValidateFragment(Right(Fragment), Root) = Root
         THEN Documented_ValidateFragment(Left(Fragment), Root)
         ELSE Documented_ValidateFragment(Right(Fragment), Root)
    ELSE IF EndsWithList(Fragment)
    THEN Documented_ValidateFragment(Inner(Fragment), Root)
    ELSE IF Fragment \in Keywords
    THEN Root
    ELSE Documented_ErrorMessage(Fragment)

Documented_ValidateExpression(Expression) ==
    Documented_ValidateFragment(Expression, Expression)

----------------------------------------------------------------------------
(* TakingShape and FinalIngredient: definitions with structure, Spaces.    *)

\* `Error: Definitions must be strings or objects whose leaves are strings.`
LeafError ==
    <<"Error: ", "Definitions must be strings or objects whose leaves are strings.">>

\* A variant that takes the keys whose expression accepts undefined.
OptionalDefKeys_AcceptingUndefined(Def) ==
    {Key \in DOMAIN Def.props :
        /\ Def.props[Key].shape = "string"
        /\ Accepts(ExpressingYourself_TypeOfExpression(Def.props[Key].text),
                   [is |-> "undefined"])}

\* TakingShape.OptionalDefKeys<Def>: the keys whose value is a string that
\* ends with "?".
OptionalDefKeys(Def) ==
    {Key \in DOMAIN Def.props :
        /\ Def.props[Key].shape = "string"
        /\ EndsWithOptional(Def.props[Key].text)}

\* A variant that looks an atom up in the Space before the keywords.
RECURSIVE TypeOfExpression_SpaceBeforeKeywords(_, _)
TypeOfExpression_SpaceBeforeKeywords(Expression, Space) ==
    IF EndsWithOptional(Expression)
    THEN Union(TypeOfExpression_SpaceBeforeKeywords(Inner(Expression), Space),
               Undefined)
    ELSE IF ContainsUnion(Expression)
    THEN Union(TypeOfExpression_SpaceBeforeKeywords(Right(Expression), Space),
               TypeOfExpression_SpaceBeforeKeywords(Left(Expression), Space))
    ELSE IF EndsWithList(Expression)
    THEN ArrayOf(TypeOfExpression_SpaceBeforeKeywords(Inner(Expression), Space))
    ELSE IF Expression \in DOMAIN Space
    THEN Reference(Expression, Space)
    ELSE IF Expression \in Keywords
    THEN TypeOfKeyword(Expression)
    ELSE Unknown

\* TakingShapeFirstAttempt.TypeOf<Def>: every key of Def is a key of the
\* type.
RECURSIVE TakingShapeFirstAttempt_TypeOf(_)
TakingShapeFirstAttempt_TypeOf(Def) ==
    IF Def.shape = "object"
    THEN ObjectOf([Key \in DOMAIN Def.props |->
                      TakingShapeFirstAttempt_TypeOf(Def.props[Key])],
                  << >>)
    ELSE IF Def.shape = "tuple"
    THEN TupleOf([Key \in DOMAIN Def.items |->
                     TakingShapeFirstAttempt_TypeOf(Def.items[Key])])
    ELSE IF Def.shape = "string"
    THEN ExpressingYourself_TypeOfExpression(Def.text)
    ELSE Unknown

RECURSIVE TakingShape_TypeOf(_)

\* A variant in which every key is required.
TypeOfObject_AllRequired(Def) ==
    IF Def.shape = "tuple"
    THEN TupleOf([Index \in DOMAIN Def.items |->
                     TakingShape_TypeOf(Def.items[Index])])
    ELSE ObjectOf([Key \in DOMAIN Def.props |->
                      TakingShape_TypeOf(Def.props[Key])],
                  << >>)

\* A variant in which the type of an optional key is unknown.
TypeOfObject_OptionalUnchecked(Def) ==
    IF Def.shape = "tuple"
    THEN TupleOf([Index \in DOMAIN Def.items |->
                     TakingShape_TypeOf(Def.items[Index])])
    ELSE ObjectOf([Key \in DOMAIN Def.props \ OptionalDefKeys(Def) |->
                      TakingShape_TypeOf(Def.props[Key])],
                  [Key \in OptionalDefKeys(Def) |-> Unknown])

\* A variant in which a tuple is a list of its first definition.
TypeOfObject_TupleAsList(Def) ==
    IF Def.shape = "tuple"
    THEN ArrayOf(TakingShape_TypeOf(Def.items[1]))
    ELSE ObjectOf([Key \in DOMAIN Def.props \ OptionalDefKeys(Def) |->
                      TakingShape_TypeOf(Def.props[Key])],
                  [Key \in OptionalDefKeys(Def) |->
                      TakingShape_TypeOf(Def.props[Key])])

\* TakingShape.TypeOfObject<Def>
TakingShape_TypeOfObject(Def) ==
    IF Def.shape = "tuple"
    THEN TupleOf([Index \in DOMAIN Def.items |->
                     TakingShape_TypeOf(Def.items[Index])])
    ELSE ObjectOf([Key \in DOMAIN Def.props \ OptionalDefKeys(Def) |->
                      TakingShape_TypeOf(Def.props[Key])],
                  [Key \in OptionalDefKeys(Def) |->
                      TakingShape_TypeOf(Def.props[Key])])

\* A variant in which the type of every string is unknown.
TypeOf_StringAsUnknown(Def) ==
    IF Def.shape \in {"object", "tuple"}
    THEN TakingShape_TypeOfObject(Def)
    ELSE Unknown

\* TakingShape.TypeOf<Def>
TakingShape_TypeOf(Def) ==
    IF Def.shape \in {"object", "tuple"}
    THEN TakingShape_TypeOfObject(Def)
    ELSE IF Def.shape = "string"
    THEN ExpressingYourself_TypeOfExpression(Def.text)
    ELSE Unknown

\* A variant that returns a leaf that is no string as it is.
RECURSIVE Validate_AcceptsAnyLeaf(_)
Validate_AcceptsAnyLeaf(Def) ==
    IF Def.shape = "object"
    THEN ObjectDef([Key \in DOMAIN Def.props |->
                       Validate_AcceptsAnyLeaf(Def.props[Key])])
    ELSE IF Def.shape = "tuple"
    THEN TupleDef([Key \in DOMAIN Def.items |->
                      Validate_AcceptsAnyLeaf(Def.items[Key])])
    ELSE IF Def.shape = "string"
    THEN StringDef(ExpressingYourself_ValidateExpression(Def.text))
    ELSE Def

\* TakingShape.Validate<Def>
RECURSIVE TakingShape_Validate(_)
TakingShape_Validate(Def) ==
    IF Def.shape = "object"
    THEN ObjectDef([Key \in DOMAIN Def.props |->
                       TakingShape_Validate(Def.props[Key])])
    ELSE IF Def.shape = "tuple"
    THEN TupleDef([Key \in DOMAIN Def.items |->
                      TakingShape_Validate(Def.items[Key])])
    ELSE IF Def.shape = "string"
    THEN StringDef(ExpressingYourself_ValidateExpression(Def.text))
    ELSE StringDef(LeafError)

\* A variant that looks a name up among the keywords only.
TypeOfExpression_KeywordsOnly(Expression, Space) ==
    ExpressingYourself_TypeOfExpression(Expression)

\* A variant that looks the whole expression up in the Space first.
RECURSIVE TypeOfExpression_WholeNameFirst(_, _)
TypeOfExpression_WholeNameFirst(Expression, Space) ==
    IF Expression \in DOMAIN Space \ Keywords
    THEN Reference(Expression, Space)
    ELSE IF EndsWithOptional(Expression)
    THEN Union(TypeOfExpression_WholeNameFirst(Inner(Expression), Space), Undefined)
    ELSE IF ContainsUnion(Expression)
    THEN Union(TypeOfExpression_WholeNameFirst(Right(Expression), Space),
               TypeOfExpression_WholeNameFirst(Left(Expression), Space))
    ELSE IF EndsWithList(Expression)
    THEN ArrayOf(TypeOfExpression_WholeNameFirst(Inner(Expression), Space))
    ELSE IF Expression \in Keywords
    THEN TypeOfKeyword(Expression)
    ELSE Unknown

RECURSIVE FinalIngredient_TypeOfExpression(_, _)
FinalIngredient_TypeOfExpression(Expression, Space) ==
    IF EndsWithOptional(Expression)
    THEN Union(FinalIngredient_TypeOfExpression(Inner(Expression), Space), Undefined)
    ELSE IF ContainsUnion(Expression)
    THEN Union(FinalIngredient_TypeOfExpression(Right(Expression), Space),
               FinalIngredient_TypeOfExpression(Left(Expression), Space))
    ELSE IF EndsWithList(Expression)
    THEN ArrayOf(FinalIngredient_TypeOfExpression(Inner(Expression), Space))
    ELSE IF Expression \in Keywords
    THEN TypeOfKeyword(Expression)
    ELSE IF Expression \in DOMAIN Space
    THEN Reference(Expression, Space)
    ELSE Unknown

\* A variant that infers the values of an object with the default Space.
TypeOfObject_DropsSpace(Def, Space) ==
    IF Def.shape = "tuple"
    THEN TupleOf([Index \in DOMAIN Def.items |->
                     FinalIngredient_TypeOf(Def.items[Index], << >>)])
    ELSE ObjectOf([Key \in DOMAIN Def.props \ OptionalDefKeys(Def) |->
                      FinalIngredient_TypeOf(Def.props[Key], << >>)],
                  [Key \in OptionalDefKeys(Def) |->
                      FinalIngredient_TypeOf(Def.props[Key], << >>)])

FinalIngredient_TypeOfObject(Def, Space) ==
    IF Def.shape = "tuple"
    THEN TupleOf([Index \in DOMAIN Def.items |->
                     FinalIngredient_TypeOf(Def.items[Index], Space)])
    ELSE ObjectOf([Key \in DOMAIN Def.props \ OptionalDefKeys(Def) |->
                      FinalIngredient_TypeOf(Def.props[Key], Space)],
                  [Key \in OptionalDefKeys(Def) |->
                      FinalIngredient_TypeOf(Def.props[Key], Space)])

FinalIngredient_TypeOf(Def, Space) ==
    IF Def.shape \in {"object", "tuple"}
    THEN FinalIngredient_TypeOfObject(Def, Space)
    ELSE IF Def.shape = "string"
    THEN FinalIngredient_TypeOfExpression(Def.text, Space)
    ELSE Unknown

\* A variant that looks a name up in the Space only.
RECURSIVE ValidateFragment_SpaceOnly(_, _, _)
ValidateFragment_SpaceOnly(Fragment, Root, Space) ==
    IF EndsWithOptional(Fragment)
    THEN ValidateFragment_SpaceOnly(Inner(Fragment), Root, Space)
    ELSE IF ContainsUnion(Fragment)
    THEN IF ValidateFragment_SpaceOnly(Right(Fragment), Root, Space) = Root
         THEN ValidateFragment_SpaceOnly(Left(Fragment), Root, Space)
         ELSE ValidateFragment_SpaceOnly(Right(Fragment), Root, Space)
    ELSE IF EndsWithList(Fragment)
    THEN ValidateFragment_SpaceOnly(Inner(Fragment), Root, Space)
    ELSE IF Fragment \in DOMAIN Space
    THEN Root
    ELSE ErrorMessage(Fragment)

RECURSIVE FinalIngredient_ValidateFragment(_, _, _)
FinalIngredient_ValidateFragment(Fragment, Root, Space) ==
    IF EndsWithOptional(Fragment)
    THEN FinalIngredient_ValidateFragment(Inner(Fragment), Root, Space)
    ELSE IF ContainsUnion(Fragment)
    THEN IF FinalIngredient_ValidateFragment(Right(Fragment), Root, Space) = Root
         THEN FinalIngredient_ValidateFragment(Left(Fragment), Root, Space)
         ELSE FinalIngredient_ValidateFragment(Right(Fragment), Root, Space)
    ELSE IF EndsWithList(Fragment)
    THEN FinalIngredient_ValidateFragment(Inner(Fragment), Root, Space)
    ELSE IF Fragment \in Keywords
    THEN Root
    ELSE IF Fragment \in DOMAIN Space
    THEN Root
    ELSE ErrorMessage(Fragment)

FinalIngredient_ValidateExpression(Expression, Space) ==
    FinalIngredient_ValidateFragment(Expression, Expression, Space)

\* Space = {}
EmptySpace == << >>

\* FinalIngredient.Validate: the recursion on the values of an object passes
\* no Space, so that they are validated with the default, the empty Space.
RECURSIVE FinalIngredient_Validate(_, _)
FinalIngredient_Validate(Def, Space) ==
    IF Def.shape = "object"
    THEN ObjectDef([Key \in DOMAIN Def.props |->
                       FinalIngredient_Validate(Def.props[Key], EmptySpace)])
    ELSE IF Def.shape = "tuple"
    THEN TupleDef([Key \in DOMAIN Def.items |->
                      FinalIngredient_Validate(Def.items[Key], EmptySpace)])
    ELSE IF Def.shape = "string"
    THEN StringDef(FinalIngredient_ValidateExpression(Def.text, Space))
    ELSE StringDef(LeafError)

----------------------------------------------------------------------------
(* The playground copy of the final code, with its parse function.         *)

RECURSIVE Playground_ValidateFragment(_, _, _)
Playground_ValidateFragment(Fragment, Root, Space) ==
    IF EndsWithOptional(Fragment)
    THEN Playground_ValidateFragment(Inner(Fragment), Root, Space)
    ELSE IF ContainsUnion(Fragment)
    THEN IF Playground_ValidateFragment(Right(Fragment), Root, Space) = Root
         THEN Playground_ValidateFragment(Left(Fragment), Root, Space)
         ELSE Playground_ValidateFragment(Right(Fragment), Root, Space)
    ELSE IF EndsWithList(Fragment)
    THEN Playground_ValidateFragment(Inner(Fragment), Root, Space)
    ELSE IF Fragment \in Keywords
    THEN Root
    ELSE IF Fragment \in DOMAIN Space
    THEN Root
    ELSE ErrorMessage(Fragment)

Playground_ValidateExpression(Expression, Space) ==
    Playground_ValidateFragment(Expression, Expression, Space)

\* A variant that returns the first error it finds in place of the object.
RECURSIVE Validate_StopsAtFirstError(_, _)
Validate_StopsAtFirstError(Def, Space) ==
    IF Def.shape = "object"
    THEN LET results == [Key \in DOMAIN Def.props |->
                            Validate_StopsAtFirstError(Def.props[Key], Space)]
             failed == {Key \in DOMAIN Def.props : results[Key] # Def.props[Key]}
         IN  IF failed = {}
             THEN ObjectDef(results)
             ELSE results[CHOOSE Key \in failed : TRUE]
    ELSE IF Def.shape = "tuple"
    THEN LET results == [Key \in DOMAIN Def.items |->
                            Validate_StopsAtFirstError(Def.items[Key], Space)]
             failed == {Key \in DOMAIN Def.items : results[Key] # Def.items[Key]}
         IN  IF failed = {}
             THEN TupleDef(results)
             ELSE results[CHOOSE Key \in failed : TRUE]
    ELSE IF Def.shape = "string"
    THEN StringDef(Playground_ValidateExpression(Def.text, Space))
    ELSE StringDef(LeafError)

\* The playground's Validate passes the Space down.
RECURSIVE Playground_Validate(_, _)
Playground_Validate(Def, Space) ==
    IF Def.shape = "object"
    THEN ObjectDef([Key \in DOMAIN Def.props |->
                       Playground_Validate(Def.props[Key], Space)])
    ELSE IF Def.shape = "tuple"
    THEN TupleDef([Key \in DOMAIN Def.items |->
                      Playground_Validate(Def.items[Key], Space)])
    ELSE IF Def.shape = "string"
    THEN StringDef(Playground_ValidateExpression(Def.text, Space))
    ELSE StringDef(LeafError)

----------------------------------------------------------------------------
(* The inputs.                                                             *)

\* A string has one token sequence: two words are never adjacent.
WellTokenized(s) ==
    \A i \in 1..(Len(s) - 1) : ~(s[i] \in Words /\ s[i + 1] \in Words)

\* The strings of n tokens.
StringsOfLength(n) ==
    {SubSeq(s, 1, n) : s \in {t \in [1..n -> Tokens] : WellTokenized(t)}}

Nothing == <<"nothing">>

Word(w) == <<w>>

\* { category: { name: "string", subcategories: "category[]" } }
CategoryDef ==
    ObjectDef((Word("name") :> StringDef(<<"string">>))
                @@ (Word("subcategories") :> StringDef(<<"category", "[]">>)))

CategorySpace == (Word("category") :> CategoryDef)

\* A Space with a member that has the name of a keyword.
ShadowSpace ==
    (Word("number") :> StringDef(<<"string", "[]">>))
        @@ (Word("category") :> CategoryDef)

\* A Space with members whose names are not plain words: names that
\* contain "|" or end with "?" or "[]".
NamesSpace ==
    (Word("category") :> CategoryDef)
        @@ (<<"string", "|", "numbr">> :> StringDef(<<"boolean">>))
        @@ (<<"category", "?">> :> StringDef(<<"number">>))
        @@ (<<"numbr", "[]">> :> StringDef(<<"string">>))

\* The Spaces an expression is read in.
ExpressionSpaces == {EmptySpace, CategorySpace, ShadowSpace, NamesSpace}

----------------------------------------------------------------------------
(* The calls.                                                              *)

Init ==
    /\ \E n \in 0..MaxLen : expression \in StringsOfLength(n)
    /\ space = EmptySpace
    /\ pc = "input"
    /\ validated = Nothing
    /\ inferred = Nothing
    /\ call = Nothing

\* ExpressingYourself.parseExpression: the compiler computes the parameter
\* type and the return type of the call from the literal passed.
parseExpression ==
    /\ pc = "input"
    /\ validated' = ExpressingYourself_ValidateExpression(expression)
    /\ inferred' = ExpressingYourself_TypeOfExpression(expression)
    /\ pc' = "parseExpression"
    /\ UNCHANGED <<expression, space, call>>

\* FinalIngredient: Validate and TypeOf of a string definition in a Space,
\* as in InferredCategory = TypeOf<"category", { category: ... }>.
TypeOfInSpace ==
    /\ pc = "input"
    /\ \E Space \in ExpressionSpaces :
           /\ space' = Space
           /\ validated' = FinalIngredient_Validate(StringDef(expression), Space).text
           /\ inferred' = FinalIngredient_TypeOf(StringDef(expression), Space)
    /\ pc' = "TypeOfInSpace"
    /\ UNCHANGED <<expression, call>>

\* src/examples.ts: type Result = TypeOfKeyword<"...">, of a word.
Examples_Result ==
    /\ pc = "input"
    /\ Len(expression) = 1
    /\ expression[1] \in Words
    /\ validated' = IF expression[1] \in DOMAIN Examples_KeywordsToTypes
                    THEN expression
                    ELSE ConstraintError(expression)
    /\ inferred' = Examples_TypeOfKeyword(expression)
    /\ pc' = "Result"
    /\ UNCHANGED <<expression, space, call>>

\* StartingSmall.ts: type Result2 = TypeOfObject<{ email: "...", ... }>;
\* nothing validates the definition.
StartingSmall_Result2 ==
    /\ pc = "input"
    /\ inferred' = StartingSmall_TypeOfObject(
                       ObjectDef((Word("email") :> StringDef(expression))))
    /\ pc' = "Result2"
    /\ UNCHANGED <<expression, space, validated, call>>

\* parseExpression as the article prints it, with its ValidateExpression.
Documented_parseExpression ==
    /\ pc = "input"
    /\ validated' = Documented_ValidateExpression(expression)
    /\ inferred' = ExpressingYourself_TypeOfExpression(expression)
    /\ pc' = "Documented_parseExpression"
    /\ UNCHANGED <<expression, space, call>>

\* { of: "..." }, an object with the expression as the value of a key.
PropertyDef == ObjectDef((Word("of") :> StringDef(expression)))

\* TakingShape.parse({ of: "..." }): the parameter type is
\* Validate<Narrow<Def>> and the return type TypeOf<Def>.
TakingShape_parseProperty ==
    /\ pc = "input"
    /\ validated' = TakingShape_Validate(PropertyDef)
    /\ inferred' = TakingShape_TypeOf(PropertyDef)
    /\ pc' = "TakingShape_parseProperty"
    /\ UNCHANGED <<expression, space, call>>

\* FinalIngredient.TypeOf<{ of: "..." }, Space>; nothing validates the
\* definition.
FinalIngredient_TypeOfProperty ==
    /\ pc = "input"
    /\ \E Space \in ExpressionSpaces :
           /\ space' = Space
           /\ inferred' = FinalIngredient_TypeOf(PropertyDef, Space)
    /\ pc' = "TypeOfProperty"
    /\ UNCHANGED <<expression, validated, call>>

Next ==
    \/ parseExpression
    \/ TypeOfInSpace
    \/ Examples_Result
    \/ StartingSmall_Result2
    \/ Documented_parseExpression
    \/ TakingShape_parseProperty
    \/ FinalIngredient_TypeOfProperty

Spec == Init /\ [][Next]_vars

----------------------------------------------------------------------------
(* The calls that take a whole Space.                                      *)

\* The Space of users, groups and categories of the playground.
UserDef ==
    ObjectDef((Word("name") :> StringDef(<<"string">>))
                @@ (Word("friends") :> StringDef(<<"user", "[]">>))
                @@ (Word("groups") :> StringDef(<<"group", "[]">>)))

GroupDef ==
    ObjectDef((Word("members") :> StringDef(<<"user", "[]">>))
                @@ (Word("category") :> StringDef(<<"category", "?">>)))

UserSpace ==
    (Word("user") :> UserDef) @@ (Word("group") :> GroupDef)
        @@ (Word("category") :> CategoryDef)

\* The expressions at the leaves of the generated definitions: keywords,
\* references to the members, and a name that is no member.
LeafTexts ==
    {<<"string">>, <<"string", "?">>, <<"string", "[]", "|", "null">>,
     <<"user">>, <<"group", "[]">>, <<"user", "?", "|", "group">>, <<"member">>}

\* The definitions nested at most d deep: a leaf, or an object or a tuple of
\* one definition.
RECURSIVE DefsOfDepth(_)
DefsOfDepth(d) ==
    IF d = 0
    THEN {StringDef(text) : text \in LeafTexts} \cup {NumberDef}
    ELSE DefsOfDepth(d - 1)
            \cup {ObjectDef((Word("of") :> Def)) : Def \in DefsOfDepth(d - 1)}
            \cup {TupleDef(<<Def>>) : Def \in DefsOfDepth(d - 1)}

\* The Spaces of one member, a tuple of two definitions, as coords is in the
\* definition of user: an expression first and a definition second.
PairSpaces ==
    {(Word("coords") :> TupleDef(<<StringDef(text), Def>>)) :
        text \in LeafTexts, Def \in DefsOfDepth(MaxDepth - 1)}

Spaces ==
    {UserSpace, CategorySpace}
        \cup [{Word("user"), Word("group")} -> DefsOfDepth(MaxDepth)]
        \cup PairSpaces

InitSpace ==
    /\ space \in Spaces
    /\ expression = EmptyString
    /\ pc = "input"
    /\ validated = Nothing
    /\ inferred = Nothing
    /\ call = Nothing

\* The playground's parse(space): the parameter type is
\* Validate<Narrow<Space>, Space> and the return type TypeOf<Space, Space>.
parse ==
    /\ pc = "input"
    /\ validated' = Playground_Validate(ObjectDef(space), space)
    /\ inferred' = FinalIngredient_TypeOf(ObjectDef(space), space)
    /\ pc' = "parse"
    /\ UNCHANGED <<expression, space, call>>

\* FinalIngredient.Validate<Space, Space> and FinalIngredient.TypeOf<Space, Space>
Validate ==
    /\ pc = "input"
    /\ validated' = FinalIngredient_Validate(ObjectDef(space), space)
    /\ inferred' = FinalIngredient_TypeOf(ObjectDef(space), space)
    /\ pc' = "Validate"
    /\ UNCHANGED <<expression, space, call>>

\* TakingShape.parse(definition): the parameter type is
\* Validate<Narrow<Def>> and the return type TypeOf<Def>.
TakingShape_parse ==
    /\ pc = "input"
    /\ validated' = TakingShape_Validate(ObjectDef(space))
    /\ inferred' = TakingShape_TypeOf(ObjectDef(space))
    /\ pc' = "TakingShape_parse"
    /\ UNCHANGED <<expression, space, call>>

\* TakingShapeFirstAttempt: InferredType is TypeOf<typeof Def>; nothing
\* validates the definition.
TakingShapeFirstAttempt_InferredType ==
    /\ pc = "input"
    /\ inferred' = TakingShapeFirstAttempt_TypeOf(ObjectDef(space))
    /\ pc' = "InferredType"
    /\ UNCHANGED <<expression, space, validated, call>>

\* StartingSmall.ts: TypeOfObject of a definition, as in Result2; nothing
\* validates the definition.
StartingSmall_TypeOfObjectOfDefinition ==
    /\ pc = "input"
    /\ inferred' = StartingSmall_TypeOfObject(ObjectDef(space))
    /\ pc' = "TypeOfObject"
    /\ UNCHANGED <<expression, space, validated, call>>

NextSpace ==
    \/ parse
    \/ Validate
    \/ TakingShape_parse
    \/ TakingShapeFirstAttempt_InferredType
    \/ StartingSmall_TypeOfObjectOfDefinition

SpecSpace == InitSpace /\ [][NextSpace]_vars

----------------------------------------------------------------------------
(* The instantiations of Validate, one at a time: from an instantiation    *)
(* the compiler goes to each of those its definition refers to.            *)

ValidateOf(Def) == [fn |-> "Validate", def |-> Def]

ValidateFragmentOf(Fragment, Root) ==
    [fn |-> "ValidateFragment", fragment |-> Fragment, root |-> Root]

\* A variant of ValidateFragment that validates the definition of the
\* member a reference names.
ValidateFragmentCalls_ExpandsReference(Fragment, Root, Space) ==
    IF EndsWithOptional(Fragment)
    THEN {ValidateFragmentOf(Inner(Fragment), Root)}
    ELSE IF ContainsUnion(Fragment)
    THEN {ValidateFragmentOf(Right(Fragment), Root)}
            \cup IF FinalIngredient_ValidateFragment(Right(Fragment), Root, Space) = Root
                 THEN {ValidateFragmentOf(Left(Fragment), Root)}
                 ELSE {}
    ELSE IF EndsWithList(Fragment)
    THEN {ValidateFragmentOf(Inner(Fragment), Root)}
    ELSE IF Fragment \in Keywords
    THEN {}
    ELSE IF Fragment \in DOMAIN Space
    THEN {ValidateOf(Space[Fragment])}
    ELSE {}

\* The instantiations ValidateFragment<Fragment, Root, Space> refers to.
ValidateFragmentCalls(Fragment, Root, Space) ==
    IF EndsWithOptional(Fragment)
    THEN {ValidateFragmentOf(Inner(Fragment), Root)}
    ELSE IF ContainsUnion(Fragment)
    THEN {ValidateFragmentOf(Right(Fragment), Root)}
            \cup IF FinalIngredient_ValidateFragment(Right(Fragment), Root, Space) = Root
                 THEN {ValidateFragmentOf(Left(Fragment), Root)}
                 ELSE {}
    ELSE IF EndsWithList(Fragment)
    THEN {ValidateFragmentOf(Inner(Fragment), Root)}
    ELSE {}

\* The instantiations the playground's Validate<Def, Space> refers to.
ValidateCalls(Def) ==
    IF Def.shape = "object"
    THEN {ValidateOf(Def.props[Key]) : Key \in DOMAIN Def.props}
    ELSE IF Def.shape = "tuple"
    THEN {ValidateOf(Def.items[Key]) : Key \in DOMAIN Def.items}
    ELSE IF Def.shape = "string"
    THEN {ValidateFragmentOf(Def.text, Def.text)}
    ELSE {}

InitValidate ==
    /\ space \in Spaces
    /\ expression = EmptyString
    /\ pc = "Validate"
    /\ validated = Nothing
    /\ inferred = Nothing
    /\ call = ValidateOf(ObjectDef(space))

\* Validate<Def, Space> goes on to the values of an object or to the
\* expression of a string.
ValidateStep ==
    /\ call.fn = "Validate"
    /\ call' \in ValidateCalls(call.def)
    /\ UNCHANGED <<expression, space, pc, validated, inferred>>

\* ValidateFragment<Fragment, Root, Space> goes on to a part of the fragment.
ValidateFragmentStep ==
    /\ call.fn = "ValidateFragment"
    /\ call' \in ValidateFragmentCalls(call.fragment, call.root, space)
    /\ UNCHANGED <<expression, space, pc, validated, inferred>>

NextValidate == ValidateStep \/ ValidateFragmentStep

SpecValidate == InitValidate /\ [][NextValidate]_vars

----------------------------------------------------------------------------
(* The atoms of an expression, read off the text: the expression is cut at *)
(* every "|", and every "?" and "[]" at the end of a piece is dropped.     *)

Bars(s) == {i \in 1..Len(s) : s[i] = "|"}

\* Where the pieces between the "|" start.
PieceStarts(s) == {1} \cup {i + 1 : i \in Bars(s)}

Smallest(S) == CHOOSE x \in S : \A y \in S : x <= y

Largest(S) == CHOOSE x \in S : \A y \in S : y <= x

\* The last token of the piece that starts at b.
PieceEnd(s, b) == Smallest({i \in Bars(s) : i >= b} \cup {Len(s) + 1}) - 1

\* The last token of the atom of the piece that starts at b.
AtomEnd(s, b) ==
    Largest({b - 1} \cup {j \in b..PieceEnd(s, b) : s[j] \notin {"?", "[]"}})

AtomAt(s, b) == SubSeq(s, b, AtomEnd(s, b))

\* The suffixes that follow the atom of the piece that starts at b.
SuffixesAt(s, b) == SubSeq(s, AtomEnd(s, b) + 1, PieceEnd(s, b))

\* The pieces of s all have their "?" and "[]" after the atom.
SuffixesFollowAtoms(s) ==
    \A b \in PieceStarts(s) :
        \A j \in (AtomEnd(s, b) + 1)..PieceEnd(s, b) : s[j] \in {"?", "[]"}

InvalidAtoms(s) == {b \in PieceStarts(s) : AtomAt(s, b) \notin Keywords}

Str(word) == <<word>>

----------------------------------------------------------------------------
(* C1: the error of a failed validation names the failing fragment.        *)

StringOrNumbrListOptional == <<"string", "|", "numbr", "[]", "?">>

\* C1: an expression with a single invalid atom validates to the error
\* message built from that atom alone, with the "?", "[]" and "|" around it
\* removed; "string|numbr[]?" reports "numbr".
C1_ErrorNamesFragment ==
    pc = "parseExpression" =>
        /\ \A b \in InvalidAtoms(expression) :
               InvalidAtoms(expression) = {b} =>
                   validated = <<"Error: ">> \o AtomAt(expression, b)
                                   \o <<" is not a valid expression.">>
        /\ expression = StringOrNumbrListOptional =>
               validated = <<"Error: ", "numbr", " is not a valid expression.">>

C1_Witness ==
    /\ pc = "parseExpression"
    /\ expression = StringOrNumbrListOptional
    /\ InvalidAtoms(expression) = {3}
    /\ validated = <<"Error: ", "numbr", " is not a valid expression.">>

----------------------------------------------------------------------------
(* C2: precedence.                                                         *)

\* The type of an atom: the keyword's type, or unknown.
TypeOfWord(w) == IF w \in DOMAIN KeywordsToTypes THEN [kind |-> w] ELSE Unknown

StringOrNumberListOptional == <<"string", "|", "number", "[]", "?">>

\* C2: "A|B[]?" is parsed as Optional(Union(A, List(B))) for all atoms A
\* and B, and "string|number[]?" is string | number[] | undefined.
C2_Precedence ==
    pc = "parseExpression" =>
        /\ \A A, B \in Words :
               expression = <<A, "|", B, "[]", "?">> =>
                   inferred = Union(Union(TypeOfWord(A), ArrayOf(TypeOfWord(B))),
                                    Undefined)
        /\ expression = StringOrNumberListOptional =>
               \A v \in Values :
                   Accepts(inferred, v) <=>
                       \/ v.is \in {"string", "undefined"}
                       \/ /\ v.is = "array"
                          /\ \A i \in 1..Len(v.items) : v.items[i].is = "number"

C2_Witness ==
    /\ pc = "parseExpression"
    /\ expression = StringOrNumberListOptional
    /\ Accepts(inferred, ArrayValue(<<[is |-> "number"], [is |-> "number"]>>))
    /\ ~Accepts(inferred, ArrayValue(<<[is |-> "string"]>>))

----------------------------------------------------------------------------
(* C4: the shape of the self-referential category.                         *)

AString == [is |-> "string"]

ANumber == [is |-> "number"]

\* A category with no subcategories, and three values that are none.
FlatCategoryValues ==
    {ObjectValue((Word("name") :> AString)
                   @@ (Word("subcategories") :> ArrayValue(<< >>))),
     ObjectValue((Word("name") :> AString)
                   @@ (Word("subsandwiches") :> ArrayValue(<< >>))),
     ObjectValue((Word("name") :> ANumber)
                   @@ (Word("subcategories") :> ArrayValue(<< >>))),
     ObjectValue((Word("name") :> AString))}

\* { name: "A", subcategories: elements }
CategoryOf(elements) ==
    ObjectValue((Word("name") :> AString) @@ (Word("subcategories") :> elements))

\* Candidate categories, three levels deep.
NestedCategoryValues == {CategoryOf(a) : a \in ArraysOver(FlatCategoryValues)}

CategoryValues ==
    FlatCategoryValues \cup NestedCategoryValues
        \cup {CategoryOf(ArrayValue(<<c>>)) : c \in NestedCategoryValues}
        \cup PrimitiveValues

\* A value that has the keys name, a string, and subcategories, an array of
\* such values, and no other key.
RECURSIVE IsCategory(_)
IsCategory(v) ==
    /\ v.is = "object"
    /\ DOMAIN v.props = {Word("name"), Word("subcategories")}
    /\ v.props[Word("name")].is = "string"
    /\ v.props[Word("subcategories")].is = "array"
    /\ \A i \in 1..Len(v.props[Word("subcategories")].items) :
           IsCategory(v.props[Word("subcategories")].items[i])

\* { name: "A", subcategories: [] }
CategoryA == CategoryOf(ArrayValue(<< >>))

\* { name: "A", subcategories: [{ name: "B", subsandwiches: [] }] }
CategoryWithSandwiches ==
    CategoryOf(ArrayValue(<<ObjectValue((Word("name") :> AString)
                               @@ (Word("subsandwiches") :> ArrayValue(<< >>)))>>))

InferredCategory ==
    /\ pc = "TypeOfInSpace"
    /\ space = CategorySpace
    /\ expression = <<"category">>

\* C4: the type inferred for "category" in the Space of the self-referential
\* category accepts a value exactly when the value is a category at every
\* depth: it accepts { name, subcategories: [] } and rejects a category
\* whose element has subsandwiches in place of subcategories.
C4_CategoryAtEveryDepth ==
    InferredCategory =>
        /\ \A v \in CategoryValues : Accepts(inferred, v) <=> IsCategory(v)
        /\ Accepts(inferred, CategoryA)
        /\ ~Accepts(inferred, CategoryWithSandwiches)

C4_Witness ==
    /\ InferredCategory
    /\ CategoryWithSandwiches \in CategoryValues
    /\ ~Accepts(inferred, CategoryWithSandwiches)
    /\ \E v \in CategoryValues :
           /\ Accepts(inferred, v)
           /\ \E w \in NestedCategoryValues :
                  /\ v = CategoryOf(ArrayValue(<<w>>))
                  /\ Len(w.props[Word("subcategories")].items) = MaxArr

----------------------------------------------------------------------------
(* C3: references are resolved against the Space at every depth.           *)

\* Every atom of the expression is a keyword or the name of a member.
NamesMembers(text, Space) ==
    \A b \in PieceStarts(text) : AtomAt(text, b) \in Keywords \cup DOMAIN Space

\* Result has the structure of Def, and every leaf of Def that names
\* members of the Space is returned as it is.
RECURSIVE ReferencesResolve(_, _, _)
ReferencesResolve(Def, Result, Space) ==
    CASE Def.shape = "object" ->
            /\ Result.shape = "object"
            /\ DOMAIN Result.props = DOMAIN Def.props
            /\ \A k \in DOMAIN Def.props :
                   ReferencesResolve(Def.props[k], Result.props[k], Space)
      [] Def.shape = "tuple" ->
            /\ Result.shape = "tuple"
            /\ DOMAIN Result.items = DOMAIN Def.items
            /\ \A i \in DOMAIN Def.items :
                   ReferencesResolve(Def.items[i], Result.items[i], Space)
      [] Def.shape = "string" ->
            NamesMembers(Def.text, Space) => Result = Def
      [] OTHER -> TRUE

\* C3: FinalIngredient.Validate of a Space resolves the references of every
\* leaf, at every depth, against that Space, and so the Space of users,
\* groups and categories validates.
C3_ReferencesResolveAtEveryDepth ==
    pc = "Validate" =>
        /\ ReferencesResolve(ObjectDef(space), validated, space)
        /\ space = UserSpace => validated = ObjectDef(space)

\* C3, as the playground's parse has it.
C3_PlaygroundResolvesAtEveryDepth ==
    pc = "parse" =>
        /\ ReferencesResolve(ObjectDef(space), validated, space)
        /\ space = UserSpace => validated = ObjectDef(space)

C3_PlaygroundWitness ==
    /\ pc = "parse"
    /\ space = UserSpace
    /\ validated = ObjectDef(space)

----------------------------------------------------------------------------
(* C7, C8, C9: the algebra of valid expressions.                           *)

\* parseExpression found the expression valid.
ParsedValid == pc = "parseExpression" /\ validated = expression

\* v is an array, each element of which the type accepts.
ArrayOfAccepted(type, v) ==
    /\ v.is = "array"
    /\ \A i \in 1..Len(v.items) : Accepts(type, v.items[i])

ListOf(e) == Append(e, "[]")

OptionalOf(e) == Append(e, "?")

\* e + "[]" is valid, and accepts the arrays of what e accepts.
ListIsArrayOfItems(e, typeOfE) ==
    /\ ExpressingYourself_ValidateExpression(ListOf(e)) = ListOf(e)
    /\ \A v \in Values :
           Accepts(ExpressingYourself_TypeOfExpression(ListOf(e)), v)
               <=> ArrayOfAccepted(typeOfE, v)

\* C7, as claimed: for every valid expression e1, e1 + "[]" is valid and
\* accepts exactly the arrays whose every element e1 accepts.
C7_ListOfAnyValidExpression ==
    ParsedValid => ListIsArrayOfItems(expression, inferred)

\* C7, amended: for every valid expression e1 that contains no "|",
\* e1 + "[]" is valid and accepts exactly the arrays whose every element e1
\* accepts; when e1 contains a "|", e1 + "[]" is valid still.
C7_ListOfExpressionWithoutUnion ==
    ParsedValid =>
        /\ ExpressingYourself_ValidateExpression(ListOf(expression))
               = ListOf(expression)
        /\ ~ContainsUnion(expression) => ListIsArrayOfItems(expression, inferred)

C7_Witness ==
    /\ ParsedValid
    /\ expression = <<"string", "?">>
    /\ ListIsArrayOfItems(expression, inferred)
    /\ Accepts(ExpressingYourself_TypeOfExpression(ListOf(expression)),
               ArrayValue(<<[is |-> "undefined"], [is |-> "string"]>>))

\* C8: for every valid expression e1, e1 + "?" is valid and accepts exactly
\* the values e1 accepts, and undefined.
C8_OptionalAddsUndefined ==
    ParsedValid =>
        /\ ExpressingYourself_ValidateExpression(OptionalOf(expression))
               = OptionalOf(expression)
        /\ \A v \in Values :
               Accepts(ExpressingYourself_TypeOfExpression(OptionalOf(expression)), v)
                   <=> (Accepts(inferred, v) \/ v.is = "undefined")

C8_Witness ==
    /\ ParsedValid
    /\ expression = <<"string", "|", "number", "[]">>
    /\ Accepts(ExpressingYourself_TypeOfExpression(OptionalOf(expression)),
               [is |-> "undefined"])
    /\ ~Accepts(inferred, [is |-> "undefined"])

\* The expression is A + "|" + B, cut at its i-th token.
Before(e, i) == SubSeq(e, 1, i - 1)

After(e, i) == SubSeq(e, i + 1, Len(e))

Swapped(e, i) == After(e, i) \o <<"|">> \o Before(e, i)

\* C9: for all valid expressions A and B, A + "|" + B and B + "|" + A accept
\* the same values, with the types of ExpressingYourself and, in a Space,
\* with those of FinalIngredient.
C9_UnionOrder ==
    /\ ParsedValid =>
           \A i \in Bars(expression) :
               (/\ ExpressingYourself_ValidateExpression(Before(expression, i))
                      = Before(expression, i)
                /\ ExpressingYourself_ValidateExpression(After(expression, i))
                      = After(expression, i))
               => \A v \in Values :
                      Accepts(inferred, v)
                          <=> Accepts(ExpressingYourself_TypeOfExpression(
                                          Swapped(expression, i)), v)
    /\ (pc = "TypeOfInSpace" /\ validated = expression) =>
           \A i \in Bars(expression) :
               (/\ FinalIngredient_ValidateExpression(Before(expression, i), space)
                      = Before(expression, i)
                /\ FinalIngredient_ValidateExpression(After(expression, i), space)
                      = After(expression, i))
               => \A v \in Values \cup FlatCategoryValues :
                      Accepts(inferred, v)
                          <=> Accepts(FinalIngredient_TypeOfExpression(
                                          Swapped(expression, i), space), v)

C9_Witness ==
    /\ ParsedValid
    /\ expression = <<"string", "?", "|", "number", "[]">>
    /\ ExpressingYourself_ValidateExpression(Swapped(expression, 3))
           = <<"number", "[]", "|", "string", "?">>
    /\ Accepts(inferred, [is |-> "undefined"])
    /\ Accepts(ExpressingYourself_TypeOfExpression(Swapped(expression, 3)),
               [is |-> "undefined"])

C9_WitnessInSpace ==
    /\ pc = "TypeOfInSpace"
    /\ expression = <<"category", "[]", "|", "string", "?">>
    /\ validated = expression

----------------------------------------------------------------------------
(* C10: the expressions that validate.                                     *)

\* The names an atom may be: a keyword or a member of the Space.
Names(Space) == Keywords \cup DOMAIN Space

\* expression := union_expr "?"?, union_expr := list_expr ("|" list_expr)*,
\* list_expr := atom "[]"*
InGrammar(s, Space) ==
    LET union_expr == IF EndsWithOptional(s) THEN Inner(s) ELSE s
    IN  \A b \in PieceStarts(union_expr) :
            /\ AtomAt(union_expr, b) \in Names(Space)
            /\ \A j \in 1..Len(SuffixesAt(union_expr, b)) :
                   SuffixesAt(union_expr, b)[j] = "[]"

\* One or more pieces joined by "|", each an atom followed by any number of
\* "[]" and "?" in any order.
InGrammarWithOptionals(s, Space) ==
    \A b \in PieceStarts(s) : AtomAt(s, b) \in Names(Space)

\* C10, as claimed: ValidateExpression accepts exactly the strings of the
\* grammar, in which a "?" is the last character only.
C10_AcceptsExactlyTheGrammar ==
    /\ pc = "parseExpression" =>
           (validated = expression <=> InGrammar(expression, EmptySpace))
    /\ pc = "TypeOfInSpace" =>
           (Playground_ValidateExpression(expression, space) = expression
               <=> InGrammar(expression, space))

\* C10, amended: ValidateExpression accepts a string exactly when it is one
\* or more pieces joined by "|", each an atom followed by any number of "[]"
\* and "?" in any order; this takes every string of the grammar, and
\* "string?|number", "string?[]" and "string??" too.
C10_AcceptsTheGrammarWithOptionals ==
    /\ pc = "parseExpression" =>
           /\ validated = expression
                  <=> InGrammarWithOptionals(expression, EmptySpace)
           /\ InGrammar(expression, EmptySpace) => validated = expression
           /\ expression \in {<<"string", "?", "|", "number">>,
                               <<"string", "?", "[]">>, <<"string", "?", "?">>}
                  => validated = expression
    /\ pc = "TypeOfInSpace" =>
           /\ Playground_ValidateExpression(expression, space) = expression
                  <=> InGrammarWithOptionals(expression, space)
           /\ InGrammar(expression, space)
                  => Playground_ValidateExpression(expression, space) = expression

C10_Witness ==
    /\ pc = "parseExpression"
    /\ expression = <<"string", "?", "|", "number">>
    /\ ~InGrammar(expression, EmptySpace)
    /\ validated = expression

----------------------------------------------------------------------------
(* The instantiations of TypeOf while a value is checked against the type  *)
(* of a member.  The type of an optional, of the sides of a union and of a *)
(* reference is instantiated with the type that holds it; the type of the  *)
(* items of a list and of the values of an object is instantiated when an  *)
(* element or a property of the value is checked against it.               *)

TypeOfOf(Def, v, since) ==
    [fn |-> "TypeOf", def |-> Def, value |-> v, since |-> since]

TypeOfExpressionOf(Expression, v, since) ==
    [fn |-> "TypeOfExpression", expression |-> Expression, value |-> v,
     since |-> since]

\* The instantiations TypeOf<Def, Space> refers to; since is the set of
\* members expanded since the last descent into the value.
TypeOfCalls(Def, v, since) ==
    IF Def.shape = "object"
    THEN IF v.is = "object"
         THEN {TypeOfOf(Def.props[Key], v.props[Key], {}) :
                  Key \in DOMAIN Def.props \cap DOMAIN v.props}
         ELSE {}
    ELSE IF Def.shape = "tuple"
    THEN IF v.is = "array"
         THEN {TypeOfOf(Def.items[Index], v.items[Index], {}) :
                  Index \in DOMAIN Def.items \cap DOMAIN v.items}
         ELSE {}
    ELSE IF Def.shape = "string"
    THEN {TypeOfExpressionOf(Def.text, v, since)}
    ELSE {}

\* The instantiations TypeOfExpression<Expression, Space> refers to.
TypeOfExpressionCalls(Expression, v, since, Space) ==
    IF EndsWithOptional(Expression)
    THEN {TypeOfExpressionOf(Inner(Expression), v, since)}
    ELSE IF ContainsUnion(Expression)
    THEN {TypeOfExpressionOf(Right(Expression), v, since),
          TypeOfExpressionOf(Left(Expression), v, since)}
    ELSE IF EndsWithList(Expression)
    THEN IF v.is = "array"
         THEN {TypeOfExpressionOf(Inner(Expression), v.items[i], {}) :
                  i \in DOMAIN v.items}
         ELSE {}
    ELSE IF Expression \in Keywords
    THEN {}
    ELSE IF Expression \in DOMAIN Space
    THEN {TypeOfOf(Space[Expression], v, since \cup {Expression})}
    ELSE {}

\* The Spaces that pass validation.
ValidSpaces ==
    {Space \in Spaces :
        Playground_Validate(ObjectDef(Space), Space) = ObjectDef(Space)}

\* The values checked against the type of a member.
ResolveValues ==
    {[is |-> "string"],
     ArrayValue(<<[is |-> "string"]>>),
     ObjectValue((Word("of") :> [is |-> "string"])),
     ObjectValue((Word("name") :> [is |-> "string"])
                   @@ (Word("subcategories") :> ArrayValue(<< >>))),
     ObjectValue((Word("name") :> [is |-> "string"])
                   @@ (Word("subcategories") :>
                          ArrayValue(<<ObjectValue(
                              (Word("name") :> [is |-> "string"])
                                @@ (Word("subcategories") :> ArrayValue(<< >>)))>>)))}

InitResolve ==
    /\ space \in ValidSpaces
    /\ expression = EmptyString
    /\ pc = "TypeOf"
    /\ validated = Nothing
    /\ inferred = Nothing
    /\ \E name \in DOMAIN space, v \in ResolveValues :
           call = TypeOfOf(StringDef(name), v, {})

TypeOfStep ==
    /\ call.fn = "TypeOf"
    /\ call' \in TypeOfCalls(call.def, call.value, call.since)
    /\ UNCHANGED <<expression, space, pc, validated, inferred>>

TypeOfExpressionStep ==
    /\ call.fn = "TypeOfExpression"
    /\ call' \in TypeOfExpressionCalls(call.expression, call.value, call.since, space)
    /\ UNCHANGED <<expression, space, pc, validated, inferred>>

NextResolve == TypeOfStep \/ TypeOfExpressionStep

SpecResolve == InitResolve /\ [][NextResolve]_vars

----------------------------------------------------------------------------
(* C5: resolving a Space that passes validation terminates.                *)

\* TypeOfExpression is at a reference to a member of the Space.
AtReference ==
    /\ call.fn = "TypeOfExpression"
    /\ ~EndsWithOptional(call.expression)
    /\ ~ContainsUnion(call.expression)
    /\ ~EndsWithList(call.expression)
    /\ call.expression \notin Keywords
    /\ call.expression \in DOMAIN space

\* C5: for every Space that passes validation, no reference is expanded a
\* second time before the value checked has been descended into, so that
\* resolving a member against a finite value terminates.
C5_ResolvingTerminates == AtReference => call.expression \notin call.since

----------------------------------------------------------------------------
(* C6: validation terminates.                                              *)

RECURSIVE DefSize(_)

RECURSIVE SumOfSizes(_, _)
SumOfSizes(defs, keys) ==
    IF keys = {}
    THEN 0
    ELSE LET k == CHOOSE x \in keys : TRUE
         IN  DefSize(defs[k]) + SumOfSizes(defs, keys \ {k})

\* The number of tokens, leaves, objects and tuples of a definition.
DefSize(Def) ==
    CASE Def.shape = "object" -> 1 + SumOfSizes(Def.props, DOMAIN Def.props)
      [] Def.shape = "tuple" -> 1 + SumOfSizes(Def.items, DOMAIN Def.items)
      [] Def.shape = "string" -> 1 + Len(Def.text)
      [] OTHER -> 1

CallSize(c) == IF c.fn = "Validate" THEN DefSize(c.def) ELSE Len(c.fragment)

\* part is a run of consecutive tokens of whole, and shorter.
ProperPartOf(part, whole) ==
    /\ Len(part) < Len(whole)
    /\ \E i \in 0..(Len(whole) - Len(part)) :
           part = SubSeq(whole, i + 1, i + Len(part))

\* C6: every instantiation validation goes on to is of a strictly smaller
\* definition or a strictly shorter fragment, and ValidateFragment goes on
\* to parts of its fragment only, never to the definition of the member a
\* reference names: validation of a finite Space terminates.
C6_ValidationDescends ==
    [][/\ CallSize(call') < CallSize(call)
       /\ call.fn = "ValidateFragment" =>
              /\ call'.fn = "ValidateFragment"
              /\ call'.root = call.root
              /\ ProperPartOf(call'.fragment, call.fragment)]_vars

\* The reference of a member to itself, in the Space of users, groups and
\* categories, is a leaf: validation goes no further.
C6_Witness ==
    /\ space = UserSpace
    /\ call = ValidateFragmentOf(<<"user">>, <<"user", "[]">>)
    /\ ValidateFragmentCalls(call.fragment, call.root, space) = {}

----------------------------------------------------------------------------
(* C11: a member of the Space that has the name of a keyword.              *)

\* The members a type refers to, before any reference is expanded.
RECURSIVE ReferenceNames(_)
ReferenceNames(type) ==
    CASE type.kind = "reference" -> {type.name}
      [] type.kind = "union" ->
            ReferenceNames(type.left) \cup ReferenceNames(type.right)
      [] type.kind = "array" -> ReferenceNames(type.item)
      [] OTHER -> {}

\* The type with each reference reduced to the name of the member.
RECURSIVE NamesOnly(_)
NamesOnly(type) ==
    CASE type.kind = "reference" -> [kind |-> "reference", name |-> type.name]
      [] type.kind = "union" ->
            Union(NamesOnly(type.left), NamesOnly(type.right))
      [] type.kind = "array" -> ArrayOf(NamesOnly(type.item))
      [] OTHER -> type

\* The Space without the members that have the name of a keyword.
WithoutKeywords(Space) == [name \in DOMAIN Space \ Keywords |-> Space[name]]

\* C11: in a Space with a member that has the name of a keyword, the
\* keyword wins: the keyword alone validates and has the type of the
\* keyword, no expression refers to the member, and every expression has
\* the type it has in the Space without that member.
C11_KeywordWins ==
    (pc = "TypeOfInSpace" /\ DOMAIN space \cap Keywords # {}) =>
        /\ ReferenceNames(inferred) \cap Keywords = {}
        /\ expression \in Keywords =>
               /\ validated = expression
               /\ inferred = KeywordsToTypes[expression[1]]
        /\ NamesOnly(inferred)
               = NamesOnly(FinalIngredient_TypeOfExpression(
                               expression, WithoutKeywords(space)))

C11_Witness ==
    /\ pc = "TypeOfInSpace"
    /\ space = ShadowSpace
    /\ expression = <<"number">>
    /\ validated = expression
    /\ Accepts(inferred, [is |-> "number"])
    /\ ~Accepts(inferred, ArrayValue(<<[is |-> "string"]>>))
    /\ Accepts(FinalIngredient_TypeOf(space[expression], space),
               ArrayValue(<<[is |-> "string"]>>))

----------------------------------------------------------------------------
(* C12: a keyword on its own.                                              *)

\* The values of the primitive a keyword names.
IsPrimitive(k, v) == k = "any" \/ v.is = k

\* C12: a keyword on its own validates, with any Space or none, and its
\* type is the primitive the registry maps it to: it accepts the values of
\* that primitive and no other.
C12_KeywordIsItsPrimitive ==
    (expression \in Keywords /\ pc \in {"parseExpression", "TypeOfInSpace"}) =>
        /\ validated = expression
        /\ inferred = KeywordsToTypes[expression[1]]
        /\ \A v \in Values : Accepts(inferred, v) <=> IsPrimitive(expression[1], v)

C12_Witness ==
    /\ pc = "TypeOfInSpace"
    /\ space = CategorySpace
    /\ expression = <<"null">>
    /\ validated = expression
    /\ Accepts(inferred, [is |-> "null"])
    /\ ~Accepts(inferred, [is |-> "undefined"])

----------------------------------------------------------------------------
(* C13: the names of the keyword registries.                               *)

\* C13: every registry has at least the names string, number, boolean,
\* null and any, so that "null" is a valid expression and has the type
\* null under each of them: under StartingSmall.KeywordsToTypes, under the
\* registry of src/examples.ts and under that of the top level of
\* StartingSmall.ts.
C13_EveryRegistryHasNull ==
    /\ (expression = <<"null">> /\ pc = "parseExpression") =>
           validated = expression /\ inferred = [kind |-> "null"]
    /\ (expression = <<"null">> /\ pc = "Result") =>
           validated = expression /\ inferred = [kind |-> "null"]
    /\ (expression = <<"null">> /\ pc = "Result2") =>
           inferred.required[Word("email")] = [kind |-> "null"]

----------------------------------------------------------------------------
(* C14: a leaf that is neither a string nor an object.                     *)

Validators == {"parse", "Validate", "TakingShape_parse"}

\* Def has a leaf that is neither a string nor an object or tuple.
RECURSIVE HasOtherLeaf(_)
HasOtherLeaf(Def) ==
    CASE Def.shape = "object" ->
            \E k \in DOMAIN Def.props : HasOtherLeaf(Def.props[k])
      [] Def.shape = "tuple" ->
            \E i \in DOMAIN Def.items : HasOtherLeaf(Def.items[i])
      [] Def.shape = "string" -> FALSE
      [] OTHER -> TRUE

\* Result has the structure of Def, with the fixed message, after the
\* prefix "Error: ", at every leaf that is neither a string nor an object.
RECURSIVE OtherLeavesReported(_, _)
OtherLeavesReported(Def, Outcome) ==
    CASE Def.shape = "object" ->
            /\ Outcome.shape = "object"
            /\ DOMAIN Outcome.props = DOMAIN Def.props
            /\ \A k \in DOMAIN Def.props :
                   OtherLeavesReported(Def.props[k], Outcome.props[k])
      [] Def.shape = "tuple" ->
            /\ Outcome.shape = "tuple"
            /\ DOMAIN Outcome.items = DOMAIN Def.items
            /\ \A i \in DOMAIN Def.items :
                   OtherLeavesReported(Def.items[i], Outcome.items[i])
      [] Def.shape = "string" -> TRUE
      [] OTHER ->
            Outcome = StringDef(<<"Error: ",
                "Definitions must be strings or objects whose leaves are strings.">>)

\* C14: a definition with a leaf that is neither a string nor an object
\* or array fails validation, and the error at that leaf is the fixed
\* message "Definitions must be strings or objects whose leaves are
\* strings.", which the source renders after "Error: ".
C14_OtherLeafIsAnError ==
    pc \in Validators =>
        /\ OtherLeavesReported(ObjectDef(space), validated)
        /\ HasOtherLeaf(ObjectDef(space)) => validated # ObjectDef(space)

C14_Witness ==
    /\ pc = "TakingShape_parse"
    /\ space = (Word("user") :> ObjectDef((Word("of") :> NumberDef)))
                  @@ (Word("group") :> StringDef(<<"string">>))
    /\ validated.props[Word("user")].props[Word("of")] = StringDef(LeafError)
    /\ validated.props[Word("group")] = StringDef(<<"string">>)

----------------------------------------------------------------------------
(* C15, C16: the properties of an object defined with a trailing "?".      *)

\* The definition of a property is an expression that ends with "?".
EndsInQuestionMark(Def) ==
    Def.shape = "string" /\ Len(Def.text) > 0 /\ Def.text[Len(Def.text)] = "?"

\* The type of the key k of an object type, required or optional.
TypeAt(type, k) ==
    IF k \in DOMAIN type.required THEN type.required[k] ELSE type.optional[k]

\* In the type of Def, at every depth, the keys defined with a trailing
\* "?" are keys of the given part, "required" or "optional", of the type.
RECURSIVE OptionalKeysIn(_, _, _)
OptionalKeysIn(Def, type, part) ==
    CASE Def.shape = "object" ->
            /\ type.kind = "object"
            /\ DOMAIN type.required \cup DOMAIN type.optional = DOMAIN Def.props
            /\ \A k \in DOMAIN Def.props :
                   /\ EndsInQuestionMark(Def.props[k]) => k \in DOMAIN type[part]
                   /\ ~EndsInQuestionMark(Def.props[k]) => k \in DOMAIN type.required
                   /\ OptionalKeysIn(Def.props[k], TypeAt(type, k), part)
      [] Def.shape = "tuple" ->
            /\ type.kind = "tuple"
            /\ \A i \in DOMAIN Def.items :
                   OptionalKeysIn(Def.items[i], type.items[i], part)
      [] OTHER -> TRUE

\* { of: "string?" }, and the values checked against its type.
OfOptionalString == ObjectDef((Word("of") :> StringDef(<<"string", "?">>)))

WithoutKey == ObjectValue(<< >>)

WithKey(v) == ObjectValue((Word("of") :> v))

\* The member user of the Space is defined as { of: "string?" }.
UserIsOfOptionalString ==
    Word("user") \in DOMAIN space /\ space[Word("user")] = OfOptionalString

\* C15, as claimed: in the type of an object definition a property whose
\* expression ends with "?" is a required key whose value may be
\* undefined; a value without the key is not accepted.
C15_OptionalKeyStaysRequired ==
    pc \in {"TakingShape_parse", "InferredType"} =>
        /\ OptionalKeysIn(ObjectDef(space), inferred, "required")
        /\ UserIsOfOptionalString =>
               /\ Accepts(inferred.required[Word("user")], WithKey([is |-> "undefined"]))
               /\ ~Accepts(inferred.required[Word("user")], WithoutKey)

\* C15, amended: TakingShape.TypeOfObject (and FinalIngredient.TypeOfObject)
\* make a property whose expression ends with "?" an optional key: a value
\* may leave the key out, or hold undefined under it.  The key is required
\* with a value that may be undefined in TakingShapeFirstAttempt.TypeOf
\* only.
C15_OptionalKeyMayBeLeftOut ==
    /\ pc \in {"TakingShape_parse", "parse"} =>
           /\ OptionalKeysIn(ObjectDef(space), inferred, "optional")
           /\ UserIsOfOptionalString =>
                  /\ Accepts(inferred.required[Word("user")],
                             WithKey([is |-> "undefined"]))
                  /\ Accepts(inferred.required[Word("user")], WithoutKey)
    /\ pc = "InferredType" =>
           /\ OptionalKeysIn(ObjectDef(space), inferred, "required")
           /\ UserIsOfOptionalString =>
                  /\ Accepts(inferred.required[Word("user")],
                             WithKey([is |-> "undefined"]))
                  /\ ~Accepts(inferred.required[Word("user")], WithoutKey)

C15_Witness ==
    /\ pc = "TakingShape_parse"
    /\ UserIsOfOptionalString
    /\ Word("of") \in DOMAIN inferred.required[Word("user")].optional
    /\ Accepts(inferred.required[Word("user")], WithoutKey)

\* The member m of the Space is defined as { of: e + "?" }.
IsOfOptional(m) ==
    /\ space[m].shape = "object"
    /\ DOMAIN space[m].props = {Word("of")}
    /\ EndsInQuestionMark(space[m].props[Word("of")])

\* The type of the expression e, for the call the state is after.
TypeOfInner(e) ==
    IF pc = "parse"
    THEN FinalIngredient_TypeOfExpression(e, space)
    ELSE ExpressingYourself_TypeOfExpression(e)

\* { members: [], category: c }
GroupOf(c) ==
    ObjectValue((Word("members") :> ArrayValue(<< >>)) @@ (Word("category") :> c))

\* C16: for a property defined as e + "?", a value that holds the property
\* with something other than undefined is accepted only if e accepts what
\* it holds; a value that leaves the property out or holds undefined is
\* accepted without a check of e.
C16_PresentValueIsChecked ==
    /\ pc \in {"TakingShape_parse", "parse"} =>
           \A m \in DOMAIN space :
               IsOfOptional(m) =>
                   /\ Accepts(inferred.required[m], WithoutKey)
                   /\ \A v \in Values :
                          Accepts(inferred.required[m], WithKey(v))
                              <=> \/ v.is = "undefined"
                                  \/ Accepts(TypeOfInner(
                                         Inner(space[m].props[Word("of")].text)), v)
    /\ (pc = "parse" /\ space = UserSpace) =>
           /\ Accepts(inferred.required[Word("group")],
                      ObjectValue((Word("members") :> ArrayValue(<< >>))))
           /\ \A c \in CategoryValues :
                  Accepts(inferred.required[Word("group")], GroupOf(c))
                      <=> (c.is = "undefined" \/ IsCategory(c))

C16_Witness ==
    /\ pc = "TakingShape_parse"
    /\ UserIsOfOptionalString
    /\ Accepts(inferred.required[Word("user")], WithKey([is |-> "string"]))
    /\ ~Accepts(inferred.required[Word("user")], WithKey([is |-> "number"]))

----------------------------------------------------------------------------
(* C17: a result or an error, never both.                                  *)

\* The type says something of the values: it is neither unknown nor the
\* absence of a type.
IsShape(type) == type.kind \notin {"unknown", "error"}

\* C17: for an expression or a Space with an invalid leaf there is an
\* error and no shape: TypeOfExpression and TypeOf give no shape for any
\* part of it, and parse returns no Space.
C17_ErrorAndNoShape ==
    /\ (pc \in {"parseExpression", "TypeOfInSpace"} /\ validated # expression) =>
           ~IsShape(inferred)
    /\ (pc \in {"parse", "TakingShape_parse"} /\ validated # ObjectDef(space)) =>
           ~IsShape(inferred)

----------------------------------------------------------------------------
(* C18: every leaf has its own answer.                                     *)

\* The piece of the text, the first from the left, whose atom is neither a
\* keyword nor a member of the Space.
FirstInvalidPiece(text, Space) ==
    Smallest({b \in PieceStarts(text) :
                 AtomAt(text, b) \notin Keywords \cup DOMAIN Space})

\* Outcome has the keys of Def, at every depth; a valid leaf is returned as
\* it is, and an invalid leaf is replaced by its own error.
RECURSIVE EveryLeafAnswered(_, _, _)
EveryLeafAnswered(Def, Outcome, Space) ==
    CASE Def.shape = "object" ->
            /\ Outcome.shape = "object"
            /\ DOMAIN Outcome.props = DOMAIN Def.props
            /\ \A k \in DOMAIN Def.props :
                   EveryLeafAnswered(Def.props[k], Outcome.props[k], Space)
      [] Def.shape = "tuple" ->
            /\ Outcome.shape = "tuple"
            /\ DOMAIN Outcome.items = DOMAIN Def.items
            /\ \A i \in DOMAIN Def.items :
                   EveryLeafAnswered(Def.items[i], Outcome.items[i], Space)
      [] Def.shape = "string" ->
            IF NamesMembers(Def.text, Space)
            THEN Outcome = Def
            ELSE Outcome = StringDef(
                     <<"Error: ">>
                         \o AtomAt(Def.text, FirstInvalidPiece(Def.text, Space))
                         \o <<" is not a valid expression.">>)
      [] OTHER ->
            Outcome = StringDef(<<"Error: ",
                "Definitions must be strings or objects whose leaves are strings.">>)

\* C18: Validate returns a structure with the keys of the definition, in
\* which every invalid leaf, at any depth, is replaced by its own error
\* and every valid leaf is returned unchanged.
C18_EveryLeafHasItsAnswer ==
    /\ pc = "TakingShape_parse" =>
           EveryLeafAnswered(ObjectDef(space), validated, EmptySpace)
    /\ pc = "parse" => EveryLeafAnswered(ObjectDef(space), validated, space)

\* Two invalid leaves, at different depths, and their two errors.
C18_Witness ==
    /\ pc = "parse"
    /\ space = (Word("user") :> ObjectDef((Word("of") :> NumberDef)))
                  @@ (Word("group") :> StringDef(<<"member">>))
    /\ validated =
           ObjectDef((Word("user") :> ObjectDef((Word("of") :> StringDef(LeafError))))
                       @@ (Word("group") :>
                              StringDef(<<"Error: ", "member",
                                          " is not a valid expression.">>)))

----------------------------------------------------------------------------
(* C19: what the error of an expression carries.                           *)

\* The expressions an error is compared across: those of three tokens or
\* fewer.
ShortExpressions == UNION {StringsOfLength(n) : n \in 0..3}

\* C19: the error of a malformed expression carries the failing fragment
\* and the whole expression, so that two different expressions, also when
\* they fail on the same fragment, have different errors.
C19_ErrorTellsTheExpression ==
    /\ (pc = "parseExpression" /\ validated # expression) =>
           \A other \in ShortExpressions \ {expression} :
               ExpressingYourself_ValidateExpression(other) # validated
    /\ (pc = "TypeOfInSpace" /\ validated # expression) =>
           \A other \in ShortExpressions \ {expression} :
               FinalIngredient_ValidateExpression(other, space) # validated

----------------------------------------------------------------------------
(* C20: the text of the error.                                             *)

\* part is a run of consecutive tokens of whole.
PartOf(part, whole) ==
    \E i \in 0..(Len(whole) - Len(part)) :
        part = SubSeq(whole, i + 1, i + Len(part))

\* C20: the message for a failing fragment F is "Error: F is not a valid
\* expression.", with F as it stands in the expression and no quotes
\* around it, in every ValidateFragment of the source and of the article.
C20_MessageWithoutQuotes ==
    (/\ pc \in {"parseExpression", "TypeOfInSpace", "Documented_parseExpression"}
     /\ validated # expression) =>
        /\ Len(validated) >= 2
        /\ validated[1] = "Error: "
        /\ validated[Len(validated)] = " is not a valid expression."
        /\ PartOf(SubSeq(validated, 2, Len(validated) - 1), expression)

----------------------------------------------------------------------------
(* C21: which error an expression with several invalid parts has.          *)

\* The error of the call the state is after, for the fragment F.
ErrorOf(F) ==
    IF pc = "Documented_parseExpression"
    THEN <<"Error: '">> \o F \o <<"' is not a valid expression.">>
    ELSE <<"Error: ">> \o F \o <<" is not a valid expression.">>

\* The text is valid on its own, for the call the state is after.
ValidAlone(text) ==
    CASE pc = "parseExpression" ->
            ExpressingYourself_ValidateExpression(text) = text
      [] pc = "Documented_parseExpression" ->
            Documented_ValidateExpression(text) = text
      [] OTHER -> FinalIngredient_ValidateExpression(text, space) = text

\* The error the text has on its own, for the call the state is after.
ErrorAlone(text) ==
    CASE pc = "parseExpression" -> ExpressingYourself_ValidateExpression(text)
      [] pc = "Documented_parseExpression" -> Documented_ValidateExpression(text)
      [] OTHER -> FinalIngredient_ValidateExpression(text, space)

\* C21: when the part before the first "|" and the part after it are both
\* invalid, the error is that of the part before it; the fragment the error
\* of any invalid expression reports is its leftmost invalid atom.
C21_LeftmostInvalidAtom ==
    pc \in {"parseExpression", "TypeOfInSpace", "Documented_parseExpression"} =>
        /\ (/\ ContainsUnion(expression)
            /\ ~ValidAlone(Right(expression))
            /\ ~ValidAlone(Left(expression))) =>
               validated = ErrorAlone(Right(expression))
        /\ validated # expression =>
               validated = ErrorOf(AtomAt(expression,
                                          FirstInvalidPiece(expression, space)))

C21_Witness ==
    /\ pc = "parseExpression"
    /\ expression = <<"numbr", "[]", "|", "category", "?">>
    /\ ~ValidAlone(Right(expression))
    /\ ~ValidAlone(Left(expression))
    /\ validated = <<"Error: ", "numbr", " is not a valid expression.">>

----------------------------------------------------------------------------
(* C22: a definition whose leaves are all valid, and the values of its     *)
(* type.                                                                   *)

\* Every leaf of Def is a string that validates, with no Space.
RECURSIVE AllLeavesValid(_)
AllLeavesValid(Def) ==
    CASE Def.shape = "object" ->
            \A k \in DOMAIN Def.props : AllLeavesValid(Def.props[k])
      [] Def.shape = "tuple" ->
            \A i \in DOMAIN Def.items : AllLeavesValid(Def.items[i])
      [] Def.shape = "string" ->
            ExpressingYourself_ValidateExpression(Def.text) = Def.text
      [] OTHER -> FALSE

\* The values at the leaves of the candidate values.
LeafValues ==
    {[is |-> "string"], [is |-> "number"], [is |-> "null"], [is |-> "undefined"],
     ArrayValue(<< >>), ArrayValue(<<[is |-> "string"]>>)}

\* The candidate values nested at most d deep: objects with the key of the
\* generated definitions, without it and with one key more, and arrays of
\* one element and of two.
RECURSIVE ValuesOfDepth(_)
ValuesOfDepth(d) ==
    IF d = 0
    THEN LeafValues
    ELSE LeafValues \cup {WithoutKey}
            \cup {WithKey(v) : v \in ValuesOfDepth(d - 1)}
            \cup {ArrayValue(<<v>>) : v \in ValuesOfDepth(d - 1)}
            \cup {ObjectValue((Word("of") :> v) @@ (Word("more") :> v)) :
                      v \in LeafValues}
            \cup {ArrayValue(<<v, v>>) : v \in LeafValues}

\* The arrays of two elements, a leaf first.
PairValues ==
    {ArrayValue(<<x, y>>) : x \in LeafValues, y \in ValuesOfDepth(MaxDepth - 1)}

\* The values checked against the type of a member.
MemberValues == ValuesOfDepth(MaxDepth) \cup PairValues

\* v has the keys of Def, at every depth, and at each leaf a value the
\* expression of the leaf accepts.
RECURSIVE Conforms(_, _)
Conforms(Def, v) ==
    CASE Def.shape = "object" ->
            /\ v.is = "object"
            /\ DOMAIN v.props = DOMAIN Def.props
            /\ \A k \in DOMAIN Def.props : Conforms(Def.props[k], v.props[k])
      [] Def.shape = "tuple" ->
            /\ v.is = "array"
            /\ Len(v.items) = Len(Def.items)
            /\ \A i \in DOMAIN Def.items : Conforms(Def.items[i], v.items[i])
      [] Def.shape = "string" ->
            Accepts(ExpressingYourself_TypeOfExpression(Def.text), v)
      [] OTHER -> TRUE

\* As Conforms, but v may leave out the keys of an object whose expression
\* ends with "?".
RECURSIVE ConformsButForOptionalKeys(_, _)
ConformsButForOptionalKeys(Def, v) ==
    CASE Def.shape = "object" ->
            /\ v.is = "object"
            /\ DOMAIN v.props \subseteq DOMAIN Def.props
            /\ \A k \in DOMAIN Def.props \ DOMAIN v.props :
                   EndsInQuestionMark(Def.props[k])
            /\ \A k \in DOMAIN v.props :
                   ConformsButForOptionalKeys(Def.props[k], v.props[k])
      [] Def.shape = "tuple" ->
            /\ v.is = "array"
            /\ Len(v.items) = Len(Def.items)
            /\ \A i \in DOMAIN Def.items :
                   ConformsButForOptionalKeys(Def.items[i], v.items[i])
      [] Def.shape = "string" ->
            Accepts(ExpressingYourself_TypeOfExpression(Def.text), v)
      [] OTHER -> TRUE

\* A value with the keys K of the Space, each with a value that conforms to
\* the member, and the values of this kind.
ValueOfMembers(K) ==
    ObjectValue([m \in K |->
        CHOOSE v \in MemberValues : Conforms(space[m], v)])

ValuesOfMembers ==
    {ValueOfMembers(K) : K \in SUBSET DOMAIN space}
        \cup {ObjectValue((Word("more") :> [is |-> "string"])
                             @@ ValueOfMembers(DOMAIN space).props)}

\* TakingShape.parse was given a definition whose leaves are all valid.
ParsedAllValid == pc = "TakingShape_parse" /\ AllLeavesValid(ObjectDef(space))

\* C22, as claimed: a definition of nested objects and tuples whose leaves
\* are all valid expressions validates to itself, and its type accepts
\* exactly the values that have the keys of the definition, at every depth,
\* and at each leaf a value the expression of the leaf accepts.
C22_RoundTripWithTheSameKeys ==
    ParsedAllValid =>
        /\ validated = ObjectDef(space)
        /\ \A m \in DOMAIN space, v \in MemberValues :
               Accepts(TypeAt(inferred, m), v) <=> Conforms(space[m], v)
        /\ \A v \in ValuesOfMembers :
               Accepts(inferred, v) <=> Conforms(ObjectDef(space), v)

\* C22, amended: a definition of nested objects and tuples whose leaves are
\* all valid expressions validates to itself, and its type accepts exactly
\* the values that have the keys of the definition, but for those whose
\* expression ends with "?", which a value may leave out, and at each leaf
\* they hold a value the expression of the leaf accepts.
C22_RoundTrip ==
    ParsedAllValid =>
        /\ validated = ObjectDef(space)
        /\ \A m \in DOMAIN space, v \in MemberValues :
               Accepts(TypeAt(inferred, m), v)
                   <=> ConformsButForOptionalKeys(space[m], v)
        /\ \A v \in ValuesOfMembers :
               Accepts(inferred, v)
                   <=> ConformsButForOptionalKeys(ObjectDef(space), v)

\* { user: [{ of: "string[]|null" }], group: { of: "string?" } }
C22_Witness ==
    /\ ParsedAllValid
    /\ space = (Word("user") :>
                    TupleDef(<<ObjectDef((Word("of") :>
                        StringDef(<<"string", "[]", "|", "null">>)))>>))
                  @@ (Word("group") :> OfOptionalString)
    /\ validated = ObjectDef(space)
    /\ Accepts(inferred,
               ObjectValue((Word("user") :>
                               ArrayValue(<<WithKey(ArrayValue(<<[is |-> "string"]>>))>>))
                             @@ (Word("group") :> WithoutKey)))
    /\ ~Accepts(inferred,
                ObjectValue((Word("user") :> ArrayValue(<<WithKey([is |-> "string"])>>))
                              @@ (Word("group") :> WithKey([is |-> "string"]))))

----------------------------------------------------------------------------
(* C23: the two parts of a union.                                          *)

\* The text without the "?" at its end, however many.
RECURSIVE WithoutOptionals(_)
WithoutOptionals(text) ==
    IF Len(text) > 0 /\ text[Len(text)] = "?"
    THEN WithoutOptionals(SubSeq(text, 1, Len(text) - 1))
    ELSE text

\* The part before the first "|" of the text, and the part after it.
FirstPart(text) == SubSeq(text, 1, Smallest(Bars(text)) - 1)

SecondPart(text) == SubSeq(text, Smallest(Bars(text)) + 1, Len(text))

\* ValidateFragment of a part of the expression, for the call the state is
\* after: Root is the expression.
FragmentResult(part) ==
    IF pc = "parseExpression"
    THEN ExpressingYourself_ValidateFragment(part, expression)
    ELSE FinalIngredient_ValidateFragment(part, expression, space)

\* C23: an expression that, without the "?" at its end, contains a "|" is
\* valid exactly when the part before the first "|" and the part after it
\* are both valid; when the first part is valid, the result for the whole
\* is the result of ValidateFragment for the second part: the expression
\* when that part is valid, and the error of that part when it is not.
C23_ValidWhenBothPartsAre ==
    (pc \in {"parseExpression", "TypeOfInSpace"} /\ Bars(expression) # {}) =>
        LET whole == WithoutOptionals(expression)
        IN  /\ validated = expression
                   <=> ValidAlone(FirstPart(whole)) /\ ValidAlone(SecondPart(whole))
            /\ ValidAlone(FirstPart(whole)) =>
                   /\ validated = FragmentResult(SecondPart(whole))
                   /\ ~ValidAlone(SecondPart(whole)) =>
                          validated = ErrorAlone(SecondPart(whole))

C23_Witness ==
    /\ pc = "TypeOfInSpace"
    /\ space = CategorySpace
    /\ expression = <<"category", "[]", "|", "numbr", "?">>
    /\ ValidAlone(<<"category", "[]">>)
    /\ validated = ErrorAlone(<<"numbr">>)
    /\ validated = <<"Error: ", "numbr", " is not a valid expression.">>

----------------------------------------------------------------------------
(* C24: tuples.                                                            *)

\* The tuples of a definition, at every depth, each with what is found at
\* its place in a structure derived from the definition: a type, or the
\* result of Validate.  The walk stops where the structure is no longer
\* that of the definition.
RECURSIVE TuplesOf(_, _)
TuplesOf(Def, found) ==
    CASE Def.shape = "object" ->
            IF "kind" \in DOMAIN found /\ found.kind = "object"
            THEN UNION {TuplesOf(Def.props[k], TypeAt(found, k)) :
                           k \in DOMAIN Def.props}
            ELSE IF "shape" \in DOMAIN found /\ found.shape = "object"
            THEN UNION {TuplesOf(Def.props[k], found.props[k]) :
                           k \in DOMAIN Def.props}
            ELSE {}
      [] Def.shape = "tuple" ->
            {[def |-> Def, found |-> found]}
                \cup IF "kind" \in DOMAIN found /\ found.kind = "tuple"
                           /\ DOMAIN found.items = DOMAIN Def.items
                     THEN UNION {TuplesOf(Def.items[i], found.items[i]) :
                                    i \in DOMAIN Def.items}
                     ELSE IF "shape" \in DOMAIN found /\ found.shape = "tuple"
                                /\ DOMAIN found.items = DOMAIN Def.items
                     THEN UNION {TuplesOf(Def.items[i], found.items[i]) :
                                    i \in DOMAIN Def.items}
                     ELSE {}
      [] OTHER -> {}

\* The type of a definition on its own, for the call the state is after.
TypeAlone(Def) ==
    IF pc = "TypeOfObject"
    THEN StartingSmall_TypeOfObject(ObjectDef((Word("of") :> Def))).required[Word("of")]
    ELSE TakingShape_TypeOf(Def)

\* The arrays checked against the type of a tuple: of no element, of one,
\* of two and of three.
TupleValues ==
    {ArrayValue(<< >>)}
        \cup {ArrayValue(<<x>>) : x \in ValuesOfDepth(MaxDepth - 1)}
        \cup PairValues
        \cup {ArrayValue(<<x, x, x>>) : x \in LeafValues}

\* v has one element for each definition of the tuple, in its order, that
\* the type of the definition accepts.
AcceptedByPosition(Def, v) ==
    /\ v.is = "array"
    /\ Len(v.items) = Len(Def.items)
    /\ \A i \in 1..Len(Def.items) : Accepts(TypeAlone(Def.items[i]), v.items[i])

\* C24: a tuple of n definitions, at any depth, is handled by position:
\* Validate returns a tuple of the n results of Validate, each at its
\* index; the type is a tuple of the n types, each at its index, which
\* accepts exactly the arrays of n elements whose i-th element the type of
\* the i-th definition accepts, so that no element may be left out, also
\* when its expression ends with "?".
C24_TuplesByPosition ==
    /\ pc \in {"TakingShape_parse", "TypeOfObject"} =>
           \A t \in TuplesOf(ObjectDef(space), inferred) :
               /\ t.found.kind = "tuple"
               /\ DOMAIN t.found.items = DOMAIN t.def.items
               /\ \A i \in DOMAIN t.def.items :
                      t.found.items[i] = TypeAlone(t.def.items[i])
               /\ \A v \in TupleValues :
                      Accepts(t.found, v) <=> AcceptedByPosition(t.def, v)
    /\ pc = "TakingShape_parse" =>
           \A t \in TuplesOf(ObjectDef(space), validated) :
               /\ t.found.shape = "tuple"
               /\ DOMAIN t.found.items = DOMAIN t.def.items
               /\ \A i \in DOMAIN t.def.items :
                      t.found.items[i] = TakingShape_Validate(t.def.items[i])

\* { coords: ["string?", "string[]|null"] }
C24_Witness ==
    /\ pc = "TakingShape_parse"
    /\ space = (Word("coords") :>
                   TupleDef(<<StringDef(<<"string", "?">>),
                              StringDef(<<"string", "[]", "|", "null">>)>>))
    /\ validated = ObjectDef(space)
    /\ Accepts(inferred.required[Word("coords")],
               ArrayValue(<<[is |-> "undefined"], [is |-> "null"]>>))
    /\ ~Accepts(inferred.required[Word("coords")],
                ArrayValue(<<[is |-> "null"], [is |-> "undefined"]>>))
    /\ ~Accepts(inferred.required[Word("coords")], ArrayValue(<<[is |-> "null"]>>))

----------------------------------------------------------------------------
(* C25: the order of the tests of TypeOfExpression.                        *)

AStringAndANumber == ArrayValue(<<[is |-> "string"], [is |-> "number"]>>)

\* C25: TypeOfExpression with the test of the trailing "[]" before that of
\* the "|" is another function: for A|B[]? it gives (A | B)[] | undefined,
\* a list of either, where TypeOfExpression gives A | B[] | undefined; for
\* "string|number[]?" the first accepts an array of a string and a number
\* and no string, the second a string and no such array.  The two agree on
\* the expressions without "|" and on those without "[]".
C25_OrderOfTestsMatters ==
    pc = "parseExpression" =>
        /\ \A A, B \in Words :
               expression = <<A, "|", B, "[]", "?">> =>
                   /\ TypeOfExpression_ListBeforeUnion(expression)
                          = Union(ArrayOf(Union(TypeOfWord(A), TypeOfWord(B))),
                                  Undefined)
                   /\ inferred = Union(Union(TypeOfWord(A), ArrayOf(TypeOfWord(B))),
                                       Undefined)
                   /\ inferred # TypeOfExpression_ListBeforeUnion(expression)
        /\ expression = StringOrNumberListOptional =>
               /\ Accepts(TypeOfExpression_ListBeforeUnion(expression),
                          AStringAndANumber)
               /\ ~Accepts(inferred, AStringAndANumber)
               /\ Accepts(inferred, AString)
               /\ ~Accepts(TypeOfExpression_ListBeforeUnion(expression), AString)
        /\ (Bars(expression) = {} \/ \A i \in 1..Len(expression) : expression[i] # "[]") =>
               inferred = TypeOfExpression_ListBeforeUnion(expression)

C25_Witness ==
    /\ pc = "parseExpression"
    /\ expression = StringOrNumberListOptional
    /\ TypeOfExpression_ListBeforeUnion(expression)
           = Union(ArrayOf(Union([kind |-> "string"], [kind |-> "number"])), Undefined)
    /\ inferred = Union(Union([kind |-> "string"], ArrayOf([kind |-> "number"])),
                        Undefined)
    /\ ~Accepts(inferred, AStringAndANumber)

----------------------------------------------------------------------------
(* C26: the empty Space.                                                   *)

\* A definition with the expression e at its leaves: an object with a
\* tuple of e and a number, and with a key defined as e + "?".
DefinitionAround(e) ==
    ObjectDef((Word("of") :> TupleDef(<<StringDef(e), NumberDef>>))
                @@ (Word("more") :> StringDef(OptionalOf(e))))

----------------------------------------------------------------------------
(* C27: validation and inference agree.                                    *)

\* An atom of the expression the type was inferred from fell through to
\* unknown.
RECURSIVE HasUnknown(_)
HasUnknown(type) ==
    CASE type.kind = "unknown" -> TRUE
      [] type.kind = "union" -> HasUnknown(type.left) \/ HasUnknown(type.right)
      [] type.kind = "array" -> HasUnknown(type.item)
      [] OTHER -> FALSE

\* The fragment an error names.
FragmentOf(error) == SubSeq(error, 2, Len(error) - 1)

\* C27: for every expression, and every Space, ValidateExpression returns
\* the expression exactly when TypeOfExpression finds a type for every atom
\* of it, none being unknown; the fragment an error names is one for which
\* TypeOfExpression gives unknown.
C27_ValidWhenEveryAtomHasAType ==
    /\ pc \in {"parseExpression", "TypeOfInSpace"} =>
           (validated = expression <=> ~HasUnknown(inferred))
    /\ (pc = "parseExpression" /\ validated # expression) =>
           ExpressingYourself_TypeOfExpression(FragmentOf(validated)) = Unknown
    /\ (pc = "TypeOfInSpace" /\ validated # expression) =>
           FinalIngredient_TypeOfExpression(FragmentOf(validated), space) = Unknown

C27_Witness ==
    /\ pc = "TypeOfInSpace"
    /\ space = CategorySpace
    /\ expression = <<"category", "[]", "|", "numbr", "?">>
    /\ validated = <<"Error: ", "numbr", " is not a valid expression.">>
    /\ inferred = Union(Union(ArrayOf(Reference(Word("category"), space)), Unknown),
                        Undefined)

----------------------------------------------------------------------------
(* C28: which keys a value may leave out.                                  *)

\* After TypeOf of { of: expression }.
TypeOfPropertyDone == pc \in {"TakingShape_parseProperty", "TypeOfProperty"}

\* The type of an expression, for the call the state is after.
TypeOfText(e) ==
    IF pc = "TypeOfProperty"
    THEN FinalIngredient_TypeOfExpression(e, space)
    ELSE ExpressingYourself_TypeOfExpression(e)

\* The expression e accepts undefined.
AcceptsUndefined(e) == Accepts(TypeOfText(e), [is |-> "undefined"])

\* The type of { of: e }, for the call the state is after.
TypeOfPropertyOf(e) ==
    IF pc = "TypeOfProperty"
    THEN FinalIngredient_TypeOf(ObjectDef((Word("of") :> StringDef(e))), space)
    ELSE TakingShape_TypeOf(ObjectDef((Word("of") :> StringDef(e))))

\* A value may leave the key out.
MayBeLeftOut(type) == Accepts(type, WithoutKey)

StringOptionalOrNumber == <<"string", "?", "|", "number">>

NumberOrStringOptional == <<"number", "|", "string", "?">>

\* C28, as claimed: a value may leave a key out exactly when the expression
\* of the key, a valid one, accepts undefined, and the two sides of a "|"
\* exchanged, which accept the same values, give the key the same
\* optionality.
C28_LeftOutWhenUndefinedIsAccepted ==
    (TypeOfPropertyDone /\ ValidAlone(expression)) =>
        /\ MayBeLeftOut(inferred) <=> AcceptsUndefined(expression)
        /\ \A i \in Bars(expression) :
               MayBeLeftOut(TypeOfPropertyOf(Swapped(expression, i)))
                   <=> MayBeLeftOut(inferred)

\* C28, amended: a value may leave a key out exactly when the expression of
\* the key ends with "?".  Every such expression accepts undefined, but not
\* every expression that accepts undefined ends with "?": the key of "any"
\* and that of "string?|number" are required, and "string?|number" and
\* "number|string?", which accept the same values, differ in this.
C28_LeftOutWhenEndingWithOptional ==
    TypeOfPropertyDone =>
        /\ MayBeLeftOut(inferred) <=> EndsWithOptional(expression)
        /\ EndsWithOptional(expression) => AcceptsUndefined(expression)
        /\ expression \in {<<"any">>, StringOptionalOrNumber} =>
               AcceptsUndefined(expression) /\ ~MayBeLeftOut(inferred)
        /\ expression = StringOptionalOrNumber =>
               /\ \A v \in Values :
                      Accepts(TypeOfText(expression), v)
                          <=> Accepts(TypeOfText(NumberOrStringOptional), v)
               /\ MayBeLeftOut(TypeOfPropertyOf(NumberOrStringOptional))

C28_Witness ==
    /\ pc = "TakingShape_parseProperty"
    /\ expression = StringOptionalOrNumber
    /\ validated = PropertyDef
    /\ Accepts(inferred, WithKey([is |-> "undefined"]))
    /\ ~Accepts(inferred, WithoutKey)
    /\ Accepts(TypeOfPropertyOf(NumberOrStringOptional), WithoutKey)

----------------------------------------------------------------------------
(* C29: a member referred to by its name.                                  *)

\* The expression is the name of a member of the Space.
NamesAMember == pc = "TypeOfInSpace" /\ expression \in DOMAIN space

\* The name is looked up as it is: it neither ends with "?" or "[]" nor
\* contains "|".
PlainName(n) == ~EndsWithOptional(n) /\ ~ContainsUnion(n) /\ ~EndsWithList(n)

\* C29, as claimed: the name of every member of a Space is a valid
\* expression in that Space, and its type is that of the definition of the
\* member, whatever the name.
C29_EveryMemberByItsName ==
    NamesAMember =>
        /\ validated = expression
        /\ Playground_ValidateExpression(expression, space) = expression
        /\ inferred = Reference(expression, space)

\* C29, amended: the name of a member is a valid expression whose type is
\* that of the definition of the member when the name is looked up as it
\* is and is no keyword.  A name that is a keyword is valid and has the
\* type of the keyword.  A name that ends with "?" or "[]" or contains "|"
\* is read as an expression: it is valid only if its atoms are names, and
\* its type is an optional, a union or a list and never that of the
\* definition of the member.
C29_PlainNamesReferToMembers ==
    NamesAMember =>
        /\ Playground_ValidateExpression(expression, space) = validated
        /\ (PlainName(expression) /\ expression \notin Keywords) =>
               /\ validated = expression
               /\ inferred = Reference(expression, space)
        /\ expression \in Keywords =>
               /\ validated = expression
               /\ inferred = TypeOfKeyword(expression)
        /\ ~PlainName(expression) =>
               /\ validated = expression <=> NamesMembers(expression, space)
               /\ inferred.kind \in {"union", "array"}
               /\ inferred # Reference(expression, space)

\* The member named "category?" is defined as "number"; the expression
\* "category?" is an optional category.
C29_Witness ==
    /\ NamesAMember
    /\ space = NamesSpace
    /\ expression = <<"category", "?">>
    /\ space[expression] = StringDef(<<"number">>)
    /\ validated = expression
    /\ inferred = Union(Reference(Word("category"), space), Undefined)
    /\ ~Accepts(inferred, [is |-> "number"])

----------------------------------------------------------------------------
(* C30: expressions with nothing where an atom is due.                     *)

\* "", "?", "[]", "|", "string|", "|string" and "string||number"
EmptyOperandExpressions ==
    {EmptyString, <<"?">>, <<"[]">>, <<"|">>, <<"string", "|">>,
     <<"|", "string">>, <<"string", "|", "|", "number">>}

\* A piece of the text has no atom.
HasEmptyAtom(text) == \E b \in PieceStarts(text) : AtomAt(text, b) = EmptyString

\* "Error:  is not a valid expression.", the error that names the empty
\* string.
ErrorOfNothing == <<"Error: ", " is not a valid expression.">>

\* C30: when no member of the Space has the empty name, no expression with
\* nothing where an atom is due is valid; "", "?", "[]", "|", "string|",
\* "|string" and "string||number" fail, each with the error that names the
\* empty string.
C30_NothingIsNotAnAtom ==
    (pc \in {"parseExpression", "TypeOfInSpace"} /\ EmptyString \notin DOMAIN space) =>
        /\ HasEmptyAtom(expression) => validated # expression
        /\ expression \in EmptyOperandExpressions => validated = ErrorOfNothing

C30_Witness ==
    /\ pc = "TypeOfInSpace"
    /\ space = CategorySpace
    /\ expression = <<"string", "|", "|", "number">>
    /\ validated = ErrorOfNothing

=============================================================================
